---- MODULE Spec2Model ----
(***************************************************************************)
(* Route graph of the tours application: rutas (Routes), paradas (Stops)  *)
(* and vecinos (Connections, directed weighted edges) kept in a MySQL     *)
(* store and reached through RoutesController, ParadasController and      *)
(* ConexionesController.                                                   *)
(*                                                                         *)
(* A store is a record [rutas, paradas, vecinos] of sets of rows.  Every   *)
(* controller method is an operator from a store and the call's arguments  *)
(* to [st |-> the store afterwards, res |-> the dict the method returns],  *)
(* and an action of the specification applies it to the committed store.   *)
(* The "message" string of a result is modelled by the sequence of the     *)
(* error kinds it is joined from.                                          *)
(***************************************************************************)
EXTENDS Integers, Sequences, FiniteSets, TLC

\* ------------------------------------------------------------------ bounds
\* identifiers the AUTO_INCREMENT counters hand out, and rows of vecinos
MaxRutaId == 2
MaxParadaId == 3
MaxVecinos == 2

\* the callers, and the arguments they pass
Usuarios == {1, 2}
RutaArgs == 1..MaxRutaId
\* 0 is the falsy identifier (and None for parada_destino_anterior_id)
ParadaArgs == 0..MaxParadaId
Distancias == {-1, 0, 1}
\* identifiers no row ever has
NoRuta == MaxRutaId + 1
NoParada == MaxParadaId + 1

\* ------------------------------------------------------------------ names
\* a name is a sequence of characters; " " is the only whitespace used
NombreDe(n) == [k \in 1..n |-> "a"]

IsBlank(c) == c = " "

RECURSIVE LStrip(_)
LStrip(s) == IF s # << >> /\ IsBlank(Head(s)) THEN LStrip(Tail(s)) ELSE s

RECURSIVE RStrip(_)
RStrip(s) ==
  IF s # << >> /\ IsBlank(s[Len(s)]) THEN RStrip(SubSeq(s, 1, Len(s) - 1)) ELSE s

\* str.strip()
Strip(s) == RStrip(LStrip(s))

\* names the callers of the specification pass for a Route
NombresRuta == { << >>, <<" ", "a", "a">>, <<"a">> }

\* a description that was not given: Python's None, which is not a string
None == <<"None">>

\* descriptions the callers pass for a Route: the default "", and None
DescripcionesRuta == { << >>, None }

\* names the callers pass for the Stop with identifier n: blank, the name of
\* that Stop with surrounding blanks, and the name of the first Stop
NombresParada(n) == { <<" ">>, <<" ">> \o NombreDe(n) \o <<" ">>, NombreDe(1) }

\* ------------------------------------------------------------------ results
Ret(st, exito, mensaje, datos) ==
  [st |-> st, res |-> [success |-> exito, message |-> mensaje, datos |-> datos]]

Contains(seq, x) == \E i \in 1..Len(seq) : seq[i] = x

\* ------------------------------------------------------------------ store
\* next_ruta and next_parada are the AUTO_INCREMENT counters of rutas and paradas
EmptyStore ==
  [rutas |-> {}, paradas |-> {}, vecinos |-> {}, next_ruta |-> 1, next_parada |-> 1]

\* SELECT COUNT(*) FROM rutas WHERE id = %s AND usuario_id = %s
CountRuta_AnyOwner(st, route_id, user_id) ==
  Cardinality({r \in st.rutas : r.id = route_id})

CountRuta(st, route_id, user_id) ==
  Cardinality({r \in st.rutas : r.id = route_id /\ r.usuario_id = user_id})

\* the count over the Stops of every Route
CountParadasEnRuta_AnyRoute(st, route_id, a, b) ==
  Cardinality({p \in st.paradas : p.id \in {a, b}})

\* SELECT COUNT(*) FROM paradas WHERE ruta_id = %s AND id IN (%s, %s)
CountParadasEnRuta(st, route_id, a, b) ==
  Cardinality({p \in st.paradas : p.ruta_id = route_id /\ p.id \in {a, b}})

\* SELECT COUNT(*) FROM vecinos WHERE parada_origen_id = %s AND parada_destino_id = %s
CountVecino_Undirected(st, o, d) ==
  Cardinality({v \in st.vecinos :
     \/ (v.parada_origen_id = o /\ v.parada_destino_id = d)
     \/ (v.parada_origen_id = d /\ v.parada_destino_id = o)})

CountVecino(st, o, d) ==
  Cardinality({v \in st.vecinos : v.parada_origen_id = o /\ v.parada_destino_id = d})

Vecino(o, d, dist) ==
  [parada_origen_id |-> o, parada_destino_id |-> d, distancia |-> dist]

\* INSERT INTO vecinos: the table admits one row per ordered pair and only
\* references to existing paradas; a violation raises (ok = FALSE)
InsertVecino(st, o, d, dist) ==
  IF \/ CountVecino(st, o, d) > 0
     \/ ~ \E p \in st.paradas : p.id = o
     \/ ~ \E p \in st.paradas : p.id = d
  THEN [ok |-> FALSE, st |-> st]
  ELSE [ok |-> TRUE, st |-> [st EXCEPT !.vecinos = @ \cup {Vecino(o, d, dist)}]]

\* DELETE FROM vecinos WHERE parada_origen_id = %s AND parada_destino_id = %s
DeleteVecino_KeepsRow(st, o, d) == st

DeleteVecino(st, o, d) ==
  [st EXCEPT !.vecinos =
     {v \in @ : ~(v.parada_origen_id = o /\ v.parada_destino_id = d)}]

\* UPDATE vecinos SET distancia = %s WHERE parada_origen_id = %s AND parada_destino_id = %s
UpdateVecino(st, o, d, dist) ==
  [st EXCEPT !.vecinos =
     {IF v.parada_origen_id = o /\ v.parada_destino_id = d
        THEN [v EXCEPT !.distancia = dist] ELSE v : v \in @}]

\* DELETE FROM paradas WHERE id = %s AND ruta_id = %s, with the store's
\* ON DELETE CASCADE from vecinos to paradas
DeleteParadaCascade_OriginOnly(st, stop_id, route_id) ==
  LET gone == {p \in st.paradas : p.id = stop_id /\ p.ruta_id = route_id}
      ids == {p.id : p \in gone}
  IN [st EXCEPT !.paradas = @ \ gone,
                !.vecinos = {v \in @ : v.parada_origen_id \notin ids}]

DeleteParadaCascade(st, stop_id, route_id) ==
  LET gone == {p \in st.paradas : p.id = stop_id /\ p.ruta_id = route_id}
      ids == {p.id : p \in gone}
  IN [st EXCEPT !.paradas = @ \ gone,
                !.vecinos = {v \in @ : v.parada_origen_id \notin ids
                                        /\ v.parada_destino_id \notin ids}]

\* DELETE FROM rutas WHERE id = %s AND usuario_id = %s, with the store's
\* ON DELETE CASCADE from paradas to rutas and from vecinos to paradas
DeleteRutaCascade(st, route_id, user_id) ==
  LET gone == {r \in st.rutas : r.id = route_id /\ r.usuario_id = user_id}
      rids == {r.id : r \in gone}
      pids == {p.id : p \in {q \in st.paradas : q.ruta_id \in rids}}
  IN [st EXCEPT !.rutas = @ \ gone,
                !.paradas = {p \in @ : p.ruta_id \notin rids},
                !.vecinos = {v \in @ : v.parada_origen_id \notin pids
                                        /\ v.parada_destino_id \notin pids}]

\* connection.commit(): the statements of the transaction become the store
Commit(st, tx) == tx

\* ------------------------------------------------------------------ Conexion
Conexion_is_valid_NoSelfLoop(o, d, dist) ==
  /\ ~(o = 0 \/ o <= 0)
  /\ ~(d = 0 \/ d <= 0)
  /\ ~(dist < 0)

Conexion_is_valid_NoDistance(o, d, dist) ==
  /\ ~(o = 0 \/ o <= 0)
  /\ ~(d = 0 \/ d <= 0)
  /\ ~(o = d)

Conexion_is_valid(o, d, dist) ==
  /\ ~(o = 0 \/ o <= 0)
  /\ ~(d = 0 \/ d <= 0)
  /\ ~(o = d)
  /\ ~(dist < 0)

Conexion_get_validation_errors(o, d, dist) ==
  (IF o = 0 \/ o <= 0 THEN <<"InvalidOrigin">> ELSE << >>)
  \o (IF d = 0 \/ d <= 0 THEN <<"InvalidDestination">> ELSE << >>)
  \o (IF o = d THEN <<"SelfLoop">> ELSE << >>)
  \o (IF dist < 0 THEN <<"NegativeDistance">> ELSE << >>)


\* ------------------------------------------------------------------ MySQL
\* MySQL.disconnect(): closes the connection; statements executed on it and
\* not committed are discarded by the store
Disconnect_KeepsWrites(st, tx) == tx

Disconnect(st, tx) == st

\* ------------------------------------------------------------------ ConexionesController
\* rows of vecinos whose two endpoints are paradas of the route (the INNER JOINs)
VecinosDeRuta(st, route_id) ==
  {v \in st.vecinos :
     /\ \E p \in st.paradas : p.id = v.parada_origen_id /\ p.ruta_id = route_id
     /\ \E p \in st.paradas : p.id = v.parada_destino_id /\ p.ruta_id = route_id}

get_route_connections(st, route_id, user_id) ==
  IF route_id = 0 \/ route_id <= 0 THEN Ret(st, FALSE, <<"InvalidRouteId">>, {})
  ELSE IF CountRuta(st, route_id, user_id) = 0 THEN Ret(st, FALSE, <<"RouteNotFound">>, {})
  ELSE Ret(st, TRUE, <<"Ok">>, VecinosDeRuta(st, route_id))

create_connection(st, route_id, user_id, o, d, dist) ==
  IF ~Conexion_is_valid(o, d, dist)
    THEN Ret(st, FALSE, Conexion_get_validation_errors(o, d, dist), {})
  ELSE IF CountRuta(st, route_id, user_id) = 0
    THEN Ret(st, FALSE, <<"RouteNotFound">>, {})
  ELSE IF CountParadasEnRuta(st, route_id, o, d) # 2
    THEN Ret(st, FALSE, <<"InvalidEndpoint">>, {})
  ELSE IF o = d
    THEN Ret(st, FALSE, <<"SelfLoop">>, {})
  ELSE IF CountVecino(st, o, d) > 0
    THEN Ret(st, FALSE, <<"Duplicate">>, {})
  ELSE LET ins == InsertVecino(st, o, d, dist)
       IN IF ~ins.ok
            THEN Ret(Disconnect(st, ins.st), FALSE, <<"Error">>, {})
            ELSE Ret(Commit(st, ins.st), TRUE, <<"Ok">>, {Vecino(o, d, dist)})

delete_connection(st, route_id, user_id, o, d) ==
  IF CountRuta(st, route_id, user_id) = 0
    THEN Ret(st, FALSE, <<"RouteNotFound">>, {})
  ELSE IF Cardinality({v \in VecinosDeRuta(st, route_id) :
                         v.parada_origen_id = o /\ v.parada_destino_id = d}) = 0
    THEN Ret(st, FALSE, <<"NotFound">>, {})
  ELSE Ret(Commit(st, DeleteVecino(st, o, d)), TRUE, <<"Ok">>, {})

get_stop_connections(st, stop_id, route_id, user_id) ==
  IF stop_id = 0 \/ stop_id <= 0 \/ route_id = 0 \/ route_id <= 0
    THEN Ret(st, FALSE, <<"InvalidId">>, {})
  ELSE IF CountRuta(st, route_id, user_id) = 0
    THEN Ret(st, FALSE, <<"RouteNotFound">>, {})
  ELSE IF Cardinality({p \in st.paradas : p.id = stop_id /\ p.ruta_id = route_id}) = 0
    THEN Ret(st, FALSE, <<"StopNotFound">>, {})
  ELSE Ret(st, TRUE, <<"Ok">>,
           {v \in VecinosDeRuta(st, route_id) :
              v.parada_origen_id = stop_id \/ v.parada_destino_id = stop_id})

get_available_stops_for_connection_Undirected(st, stop_id, route_id, user_id) ==
  IF stop_id = 0 \/ stop_id <= 0 \/ route_id = 0 \/ route_id <= 0
    THEN Ret(st, FALSE, <<"InvalidId">>, {})
  ELSE IF CountRuta(st, route_id, user_id) = 0
    THEN Ret(st, FALSE, <<"RouteNotFound">>, {})
  ELSE Ret(st, TRUE, <<"Ok">>,
           {p.id : p \in {q \in st.paradas :
              /\ q.ruta_id = route_id
              /\ q.id # stop_id
              /\ q.id \notin {v.parada_destino_id :
                                v \in {w \in st.vecinos : w.parada_origen_id = stop_id}}
              /\ q.id \notin {v.parada_origen_id :
                                v \in {w \in st.vecinos : w.parada_destino_id = stop_id}}}})

get_available_stops_for_connection_Consumes(st, stop_id, route_id, user_id) ==
  IF stop_id = 0 \/ stop_id <= 0 \/ route_id = 0 \/ route_id <= 0
    THEN Ret(st, FALSE, <<"InvalidId">>, {})
  ELSE IF CountRuta(st, route_id, user_id) = 0
    THEN Ret(st, FALSE, <<"RouteNotFound">>, {})
  ELSE Ret([st EXCEPT !.vecinos = {w \in @ : w.parada_origen_id # stop_id}], TRUE, <<"Ok">>,
           {p.id : p \in {q \in st.paradas :
              /\ q.ruta_id = route_id
              /\ q.id # stop_id
              /\ q.id \notin {v.parada_destino_id :
                                v \in {w \in st.vecinos : w.parada_origen_id = stop_id}}}})

\* the query without its condition p.id != stop_id
get_available_stops_for_connection_WithOrigin(st, stop_id, route_id, user_id) ==
  IF stop_id = 0 \/ stop_id <= 0 \/ route_id = 0 \/ route_id <= 0
    THEN Ret(st, FALSE, <<"InvalidId">>, {})
  ELSE IF CountRuta(st, route_id, user_id) = 0
    THEN Ret(st, FALSE, <<"RouteNotFound">>, {})
  ELSE Ret(st, TRUE, <<"Ok">>,
           {p.id : p \in {q \in st.paradas :
              /\ q.ruta_id = route_id
              /\ q.id \notin {v.parada_destino_id :
                                v \in {w \in st.vecinos : w.parada_origen_id = stop_id}}}})

get_available_stops_for_connection(st, stop_id, route_id, user_id) ==
  IF stop_id = 0 \/ stop_id <= 0 \/ route_id = 0 \/ route_id <= 0
    THEN Ret(st, FALSE, <<"InvalidId">>, {})
  ELSE IF CountRuta(st, route_id, user_id) = 0
    THEN Ret(st, FALSE, <<"RouteNotFound">>, {})
  ELSE Ret(st, TRUE, <<"Ok">>,
           {p.id : p \in {q \in st.paradas :
              /\ q.ruta_id = route_id
              /\ q.id # stop_id
              /\ q.id \notin {v.parada_destino_id :
                                v \in {w \in st.vecinos : w.parada_origen_id = stop_id}}}})

get_route_stops_for_connections(st, route_id, user_id) ==
  IF CountRuta(st, route_id, user_id) = 0
    THEN Ret(st, FALSE, <<"RouteNotFound">>, {})
  ELSE Ret(st, TRUE, <<"Ok">>, {p.id : p \in {q \in st.paradas : q.ruta_id = route_id}})

\* the branch of update_connection that changes the destination:
\* delete (origin, previous destination), insert (origin, destination), commit
Retarget_KeepsOld(st, o, d, dist, anterior) ==
  IF CountVecino(st, o, anterior) = 0
    THEN Ret(st, FALSE, <<"NotFound">>, {})
  ELSE IF CountVecino(st, o, d) > 0
    THEN Ret(st, FALSE, <<"Duplicate">>, {})
  ELSE LET ins == InsertVecino(st, o, d, dist)
       IN IF ~ins.ok
            THEN Ret(Disconnect(st, ins.st), FALSE, <<"Error">>, {})
            ELSE Ret(Commit(st, ins.st), TRUE, <<"Ok">>, {})

\* the branch with the DELETE executed and committed before the check on the
\* new pair
Retarget_DeleteFirst(st, o, d, dist, anterior) ==
  IF CountVecino(st, o, anterior) = 0
    THEN Ret(st, FALSE, <<"NotFound">>, {})
  ELSE IF CountVecino(st, o, d) > 0
    THEN Ret(Commit(st, DeleteVecino(st, o, anterior)), FALSE, <<"Duplicate">>, {})
  ELSE LET ins == InsertVecino(DeleteVecino(st, o, anterior), o, d, dist)
       IN IF ~ins.ok
            THEN Ret(Disconnect(st, ins.st), FALSE, <<"Error">>, {})
            ELSE Ret(Commit(st, ins.st), TRUE, <<"Ok">>, {})

Retarget(st, o, d, dist, anterior) ==
  IF CountVecino(st, o, anterior) = 0
    THEN Ret(st, FALSE, <<"NotFound">>, {})
  ELSE IF CountVecino(st, o, d) > 0
    THEN Ret(st, FALSE, <<"Duplicate">>, {})
  ELSE LET ins == InsertVecino(DeleteVecino(st, o, anterior), o, d, dist)
       IN IF ~ins.ok
            THEN Ret(Disconnect(st, ins.st), FALSE, <<"Error">>, {})
            ELSE Ret(Commit(st, ins.st), TRUE, <<"Ok">>, {})

\* the branch of update_connection that changes only the distance
UpdateDistancia_Upsert(st, o, d, dist) ==
  IF CountVecino(st, o, d) = 0
    THEN Ret(Commit(st, InsertVecino(st, o, d, dist).st), TRUE, <<"Ok">>, {})
    ELSE Ret(Commit(st, UpdateVecino(st, o, d, dist)), TRUE, <<"Ok">>, {})

UpdateDistancia(st, o, d, dist) ==
  IF CountVecino(st, o, d) = 0
    THEN Ret(st, FALSE, <<"NotFound">>, {})
    ELSE Ret(Commit(st, UpdateVecino(st, o, d, dist)), TRUE, <<"Ok">>, {})

\* update_connection without its checks on the pair and on the distance
update_connection_NoChecks(st, route_id, user_id, o, d, dist, anterior) ==
  IF CountRuta(st, route_id, user_id) = 0
    THEN Ret(st, FALSE, <<"RouteNotFound">>, {})
  ELSE IF CountParadasEnRuta(st, route_id, o, d) # 2 /\ o # d
    THEN Ret(st, FALSE, <<"InvalidEndpoint">>, {})
  ELSE IF anterior # 0 /\ d # anterior
    THEN Retarget(st, o, d, dist, anterior)
    ELSE UpdateDistancia(st, o, d, dist)

\* anterior = 0 stands for parada_destino_anterior_id = None (both are falsy)
update_connection(st, route_id, user_id, o, d, dist, anterior) ==
  IF o = d
    THEN Ret(st, FALSE, <<"SelfLoop">>, {})
  ELSE IF dist < 0
    THEN Ret(st, FALSE, <<"NegativeDistance">>, {})
  ELSE IF CountRuta(st, route_id, user_id) = 0
    THEN Ret(st, FALSE, <<"RouteNotFound">>, {})
  ELSE IF CountParadasEnRuta(st, route_id, o, d) # 2
    THEN Ret(st, FALSE, <<"InvalidEndpoint">>, {})
  ELSE IF anterior # 0 /\ d # anterior
    THEN Retarget(st, o, d, dist, anterior)
    ELSE UpdateDistancia(st, o, d, dist)


\* ------------------------------------------------------------------ Ruta
MinNombreRuta == 2

MaxNombreRuta == 100

MaxDescripcionRuta == 1000

\* Ruta.__post_init__: a value that is neither None nor "" is stripped
Ruta_post_init(x) == IF x = None \/ x = << >> THEN x ELSE Strip(x)

\* Ruta.__post_init__ strips the name before is_valid reads it
Ruta_is_valid(nombre) == Strip(nombre) # << >> /\ Strip(Strip(nombre)) # << >>

Ruta_get_validation_errors(nombre, descripcion) ==
  (IF Strip(nombre) = << >> \/ Strip(Strip(nombre)) = << >> THEN <<"NameRequired">>
   ELSE IF Len(Strip(Strip(nombre))) < MinNombreRuta THEN <<"NameTooShort">>
   ELSE IF Len(Strip(Strip(nombre))) > MaxNombreRuta THEN <<"NameTooLong">>
   ELSE << >>)
  \o (IF Ruta_post_init(descripcion) \notin {None, << >>}
          /\ Len(Ruta_post_init(descripcion)) > MaxDescripcionRuta
        THEN <<"DescriptionTooLong">> ELSE << >>)

\* Ruta.from_dict: the row as a Ruta object
Ruta_from_dict(row) ==
  [row EXCEPT !.nombre = Ruta_post_init(@), !.descripcion = Ruta_post_init(@)]

\* ------------------------------------------------------------------ RoutesController
get_user_routes(st, user_id) ==
  IF user_id = 0 \/ user_id <= 0 THEN Ret(st, FALSE, <<"InvalidUserId">>, {})
  ELSE Ret(st, TRUE, <<"Ok">>, {r \in st.rutas : r.usuario_id = user_id})

\* descripcion.strip() in the arguments of the INSERT raises when descripcion
\* is None; the except clause returns the generic failure
create_route_AnyOwner(st, user_id, nombre, descripcion) ==
  IF ~Ruta_is_valid(nombre)
    THEN Ret(st, FALSE, Ruta_get_validation_errors(nombre, descripcion), {})
  ELSE IF Cardinality({r \in st.rutas : r.nombre = Strip(nombre)}) > 0
    THEN Ret(st, FALSE, <<"DuplicateName">>, {})
  ELSE IF descripcion = None
    THEN Ret(Disconnect(st, st), FALSE, <<"Error">>, {})
  ELSE LET row == [id |-> st.next_ruta, usuario_id |-> user_id, nombre |-> Strip(nombre),
                   descripcion |-> Strip(descripcion)]
       IN Ret(Commit(st, [st EXCEPT !.rutas = @ \cup {row}, !.next_ruta = @ + 1]),
              TRUE, <<"Ok">>,
              {[row EXCEPT !.nombre = Ruta_post_init(nombre),
                           !.descripcion = Ruta_post_init(descripcion)]})

create_route(st, user_id, nombre, descripcion) ==
  IF ~Ruta_is_valid(nombre)
    THEN Ret(st, FALSE, Ruta_get_validation_errors(nombre, descripcion), {})
  ELSE IF Cardinality({r \in st.rutas :
                         r.usuario_id = user_id /\ r.nombre = Strip(nombre)}) > 0
    THEN Ret(st, FALSE, <<"DuplicateName">>, {})
  ELSE IF descripcion = None
    THEN Ret(Disconnect(st, st), FALSE, <<"Error">>, {})
  ELSE LET row == [id |-> st.next_ruta, usuario_id |-> user_id, nombre |-> Strip(nombre),
                   descripcion |-> Strip(descripcion)]
       IN Ret(Commit(st, [st EXCEPT !.rutas = @ \cup {row}, !.next_ruta = @ + 1]),
              TRUE, <<"Ok">>,
              {[row EXCEPT !.nombre = Ruta_post_init(nombre),
                           !.descripcion = Ruta_post_init(descripcion)]})

get_route_by_id(st, route_id, user_id) ==
  IF route_id = 0 \/ route_id <= 0 THEN Ret(st, FALSE, <<"InvalidRouteId">>, {})
  ELSE IF {r \in st.rutas : r.id = route_id /\ r.usuario_id = user_id} = {}
    THEN Ret(st, FALSE, <<"RouteNotFound">>, {})
  ELSE Ret(st, TRUE, <<"Ok">>,
           {Ruta_from_dict(r) : r \in {x \in st.rutas : x.id = route_id /\ x.usuario_id = user_id}})

delete_route_NoCommit(st, route_id, user_id) ==
  IF CountRuta(st, route_id, user_id) = 0
    THEN Ret(st, FALSE, <<"RouteNotFound">>, {})
  ELSE Ret(Disconnect(st, DeleteRutaCascade(st, route_id, user_id)), TRUE, <<"Ok">>, {})

delete_route(st, route_id, user_id) ==
  IF CountRuta(st, route_id, user_id) = 0
    THEN Ret(st, FALSE, <<"RouteNotFound">>, {})
  ELSE Ret(Commit(st, DeleteRutaCascade(st, route_id, user_id)), TRUE, <<"Ok">>, {})

\* ------------------------------------------------------------------ Parada
Parada_is_valid(ruta_id, nombre) ==
  nombre # << >> /\ Strip(nombre) # << >> /\ ruta_id # 0

Parada_get_validation_errors(ruta_id, nombre) ==
  (IF nombre = << >> \/ Strip(nombre) = << >> THEN <<"NameRequired">> ELSE << >>)
  \o (IF ruta_id = 0 THEN <<"RouteRequired">> ELSE << >>)

\* ------------------------------------------------------------------ ParadasController
get_route_stops(st, route_id, user_id) ==
  IF route_id = 0 \/ route_id <= 0 THEN Ret(st, FALSE, <<"InvalidRouteId">>, {})
  ELSE IF CountRuta(st, route_id, user_id) = 0
    THEN Ret(st, FALSE, <<"RouteNotFound">>, {})
  ELSE Ret(st, TRUE, <<"Ok">>, {p \in st.paradas : p.ruta_id = route_id})

create_stop(st, route_id, user_id, nombre) ==
  IF ~Parada_is_valid(route_id, nombre)
    THEN Ret(st, FALSE, Parada_get_validation_errors(route_id, nombre), {})
  ELSE IF CountRuta(st, route_id, user_id) = 0
    THEN Ret(st, FALSE, <<"RouteNotFound">>, {})
  ELSE IF Cardinality({p \in st.paradas :
                         p.ruta_id = route_id /\ p.nombre = Strip(nombre)}) > 0
    THEN Ret(st, FALSE, <<"DuplicateName">>, {})
  ELSE LET row == [id |-> st.next_parada, ruta_id |-> route_id, nombre |-> Strip(nombre)]
       IN Ret(Commit(st, [st EXCEPT !.paradas = @ \cup {row}, !.next_parada = @ + 1]),
              TRUE, <<"Ok">>, {row})

\* SELECT COUNT(*) FROM paradas p INNER JOIN rutas r ON p.ruta_id = r.id
\* WHERE p.id = %s AND p.ruta_id = %s AND r.usuario_id = %s
CountParadaDeUsuario(st, stop_id, route_id, user_id) ==
  Cardinality({p \in st.paradas :
     /\ p.id = stop_id
     /\ p.ruta_id = route_id
     /\ \E r \in st.rutas : r.id = p.ruta_id /\ r.usuario_id = user_id})

update_stop(st, stop_id, route_id, user_id, nombre) ==
  IF nombre = << >> \/ Strip(nombre) = << >>
    THEN Ret(st, FALSE, <<"NameRequired">>, {})
  ELSE IF CountParadaDeUsuario(st, stop_id, route_id, user_id) = 0
    THEN Ret(st, FALSE, <<"StopNotFound">>, {})
  ELSE IF Cardinality({p \in st.paradas :
             p.ruta_id = route_id /\ p.nombre = Strip(nombre) /\ p.id # stop_id}) > 0
    THEN Ret(st, FALSE, <<"DuplicateName">>, {})
  ELSE Ret(Commit(st, [st EXCEPT !.paradas =
              {IF p.id = stop_id /\ p.ruta_id = route_id
                 THEN [p EXCEPT !.nombre = Strip(nombre)] ELSE p : p \in @}]),
           TRUE, <<"Ok">>, {})

delete_stop(st, stop_id, route_id, user_id) ==
  IF CountParadaDeUsuario(st, stop_id, route_id, user_id) = 0
    THEN Ret(st, FALSE, <<"StopNotFound">>, {})
  ELSE Ret(Commit(st, DeleteParadaCascade(st, stop_id, route_id)), TRUE, <<"Ok">>, {})


\* ------------------------------------------------------------------ state
\* the committed rows of the three tables and the two AUTO_INCREMENT counters
VARIABLES rutas, paradas, vecinos, next_ruta, next_parada

\* calls in progress, one per session (a controller with its own MySQL handle):
\* pc is the statement the call is at, call its arguments, tx the statements
\* executed on its connection and not committed, ret the dict it returns
VARIABLES pc, call, tx, ret

\* whether the paradas table of the deployed schema carries a unique key on
\* (ruta_id, nombre); the schema is not part of the sources
VARIABLES paradas_unicas

\* the fields of RutaGraphView that its handlers read and write
VARIABLES vista

\* the MySQL handle self.db of a controller that several calls share: the
\* connection it holds (0 for None), and every connection opened through it
VARIABLES db

sesvars == <<pc, call, tx, ret, paradas_unicas, vista, db>>

vars == <<rutas, paradas, vecinos, next_ruta, next_parada, pc, call, tx, ret, paradas_unicas,
          vista, db>>

\* MySQL.__init__: no connection
NoDb == [connection |-> 0, conns |-> << >>]

\* RutaGraphView.__init__: no node selected (None), no path (None), no message
NoVista ==
  [start_node |-> 0, end_node |-> 0, shortest_path |-> << >>, path_length |-> 0,
   message |-> "none"]

Sesiones == {1, 2}

NoCall == [op |-> "none", origen |-> 0, destino |-> 0, distancia |-> 0, anterior |-> 0,
           raced |-> FALSE]

NoTx == [del |-> {}, ins |-> {}]

NoRet == [success |-> FALSE, message |-> << >>, fault |-> FALSE, at |-> "idle"]

Store ==
  [rutas |-> rutas, paradas |-> paradas, vecinos |-> vecinos,
   next_ruta |-> next_ruta, next_parada |-> next_parada]

\* the call returns x: the store becomes x.st (a call that fails, and a query,
\* leave it as it was)
Apply(x) ==
  /\ rutas' = x.st.rutas
  /\ paradas' = x.st.paradas
  /\ vecinos' = x.st.vecinos
  /\ next_ruta' = x.st.next_ruta
  /\ next_parada' = x.st.next_parada
  /\ UNCHANGED sesvars

Init ==
  /\ rutas = {}
  /\ paradas = {}
  /\ vecinos = {}
  /\ next_ruta = 1
  /\ next_parada = 1
  /\ pc = [s \in Sesiones |-> "idle"]
  /\ call = [s \in Sesiones |-> NoCall]
  /\ tx = [s \in Sesiones |-> NoTx]
  /\ ret = [s \in Sesiones |-> NoRet]
  /\ paradas_unicas = FALSE
  /\ vista = NoVista
  /\ db = NoDb

\* ------------------------------------------------------------------ actions
GetUserRoutes ==
  \E u \in Usuarios : Apply(get_user_routes(Store, u))

CreateRoute ==
  \E u \in Usuarios, n \in NombresRuta, d \in DescripcionesRuta :
    LET x == create_route(Store, u, n, d)
    IN /\ x.res.success => next_ruta <= MaxRutaId
       /\ Apply(x)

GetRouteById ==
  \E r \in RutaArgs, u \in Usuarios : Apply(get_route_by_id(Store, r, u))

DeleteRoute ==
  \E r \in RutaArgs, u \in Usuarios : Apply(delete_route(Store, r, u))

GetRouteStops ==
  \E r \in RutaArgs, u \in Usuarios : Apply(get_route_stops(Store, r, u))

CreateStop ==
  \E r \in RutaArgs, u \in Usuarios, n \in NombresParada(next_parada) :
    LET x == create_stop(Store, r, u, n)
    IN /\ x.res.success => next_parada <= MaxParadaId
       /\ Apply(x)

UpdateStop ==
  \E s \in ParadaArgs, r \in RutaArgs, u \in Usuarios :
    \E n \in NombresParada(s) : Apply(update_stop(Store, s, r, u, n))

DeleteStop ==
  \E s \in ParadaArgs, r \in RutaArgs, u \in Usuarios :
    Apply(delete_stop(Store, s, r, u))

GetRouteConnections ==
  \E r \in RutaArgs, u \in Usuarios :
    Apply(get_route_connections(Store, r, u))

CreateConnection ==
  \E r \in RutaArgs, u \in Usuarios, o \in ParadaArgs, d \in ParadaArgs, dist \in Distancias :
    LET x == create_connection(Store, r, u, o, d, dist)
    IN /\ x.res.success => Cardinality(vecinos) < MaxVecinos
       /\ Apply(x)

DeleteConnection ==
  \E r \in RutaArgs, u \in Usuarios, o \in ParadaArgs, d \in ParadaArgs :
    Apply(delete_connection(Store, r, u, o, d))

GetStopConnections ==
  \E s \in ParadaArgs, r \in RutaArgs, u \in Usuarios :
    Apply(get_stop_connections(Store, s, r, u))

GetAvailableStopsForConnection ==
  \E s \in ParadaArgs, r \in RutaArgs, u \in Usuarios :
    Apply(get_available_stops_for_connection(Store, s, r, u))

GetRouteStopsForConnections ==
  \E r \in RutaArgs, u \in Usuarios :
    Apply(get_route_stops_for_connections(Store, r, u))

UpdateConnection ==
  \E r \in RutaArgs, u \in Usuarios, o \in ParadaArgs, d \in ParadaArgs,
     dist \in Distancias, anterior \in ParadaArgs :
    Apply(update_connection(Store, r, u, o, d, dist, anterior))

Next ==
  \/ GetUserRoutes
  \/ CreateRoute
  \/ GetRouteById
  \/ DeleteRoute
  \/ GetRouteStops
  \/ CreateStop
  \/ UpdateStop
  \/ DeleteStop
  \/ GetRouteConnections
  \/ CreateConnection
  \/ DeleteConnection
  \/ GetStopConnections
  \/ GetAvailableStopsForConnection
  \/ GetRouteStopsForConnections
  \/ UpdateConnection

Spec == Init /\ [][Next]_vars


\* ------------------------------------------------------------------ sessions
\* create_connection and update_connection executed statement by statement by
\* concurrent sessions, each on the connection its call opens. A SELECT reads
\* the committed rows and the session's own uncommitted writes; a write waits
\* while another session holds an uncommitted write on the same row.

\* the store the sessions start from: what create_route by user 1 followed by
\* MaxParadaId create_stop calls on that route leave behind
TxStore ==
  [rutas |-> {[id |-> 1, usuario_id |-> 1, nombre |-> NombreDe(2), descripcion |-> << >>]},
   paradas |-> {[id |-> i, ruta_id |-> 1, nombre |-> NombreDe(i)] : i \in 1..MaxParadaId},
   vecinos |-> {},
   next_ruta |-> 2,
   next_parada |-> MaxParadaId + 1]

\* arguments of the concurrent calls: every edge leaves the first Stop
DestinosTx == 1..MaxParadaId

DistanciasTx == {x \in Distancias : x >= 0}

Par(v) == <<v.parada_origen_id, v.parada_destino_id>>

\* the rows of vecinos as the connection of session s sees them
View(s) == {v \in vecinos : Par(v) \notin tx[s].del} \cup tx[s].ins

StoreTx(s) == [Store EXCEPT !.vecinos = View(s)]

\* the uncommitted writes that turn the committed rows into the rows view
Writes(view) == [del |-> {Par(v) : v \in vecinos \ view}, ins |-> view \ vecinos]

\* another session holds an uncommitted write on the row of the pair (o, d)
Locked(s, o, d) ==
  \E t \in Sesiones \ {s} : <<o, d>> \in tx[t].del \cup {Par(v) : v \in tx[t].ins}

\* the call of session s goes on to statement l
Goto(s, l) ==
  /\ pc' = [pc EXCEPT ![s] = l]
  /\ UNCHANGED <<rutas, paradas, vecinos, next_ruta, next_parada, tx, ret, paradas_unicas, vista, db>>

\* cursor.execute of a write: the rows seen by the connection become those of st
Execute(s, st, l) ==
  /\ tx' = [tx EXCEPT ![s] = Writes(st.vecinos)]
  /\ pc' = [pc EXCEPT ![s] = l]
  /\ UNCHANGED <<rutas, paradas, vecinos, next_ruta, next_parada, ret, paradas_unicas, vista, db>>

\* return of a failure dict; the finally clause disconnects. fault records
\* that the failure came from the store being unavailable
Finish(s, mensaje, fault) ==
  /\ vecinos' = Disconnect(Store, StoreTx(s)).vecinos
  /\ tx' = [tx EXCEPT ![s] = NoTx]
  /\ ret' = [ret EXCEPT ![s] = [success |-> FALSE, message |-> mensaje,
                                fault |-> fault, at |-> pc[s]]]
  /\ pc' = [pc EXCEPT ![s] = "done"]
  /\ UNCHANGED <<rutas, paradas, next_ruta, next_parada, paradas_unicas, vista, db>>

InitTx ==
  /\ rutas = TxStore.rutas
  /\ paradas = TxStore.paradas
  /\ vecinos = TxStore.vecinos
  /\ next_ruta = TxStore.next_ruta
  /\ next_parada = TxStore.next_parada
  /\ pc = [s \in Sesiones |-> "idle"]
  /\ call = [s \in Sesiones |-> NoCall]
  /\ tx = [s \in Sesiones |-> NoTx]
  /\ ret = [s \in Sesiones |-> NoRet]
  /\ paradas_unicas = FALSE
  /\ vista = NoVista
  /\ db = NoDb

\* create_connection up to the query on vecinos
TxCallCreate ==
  \E s \in Sesiones, d \in DestinosTx, dist \in DistanciasTx :
    /\ pc[s] = "idle"
    /\ call' = [call EXCEPT ![s] = [op |-> "create", origen |-> 1, destino |-> d,
                                    distancia |-> dist, anterior |-> 0, raced |-> FALSE]]
    /\ IF ~Conexion_is_valid(1, d, dist)
         THEN Finish(s, Conexion_get_validation_errors(1, d, dist), FALSE)
       ELSE IF CountRuta(StoreTx(s), 1, 1) = 0
         THEN Finish(s, <<"RouteNotFound">>, FALSE)
       ELSE IF CountParadasEnRuta(StoreTx(s), 1, 1, d) # 2
         THEN Finish(s, <<"InvalidEndpoint">>, FALSE)
       ELSE Goto(s, "c_exists")

TxCreateExists ==
  \E s \in Sesiones :
    /\ pc[s] = "c_exists"
    /\ UNCHANGED call
    /\ IF CountVecino(StoreTx(s), call[s].origen, call[s].destino) > 0
         THEN Finish(s, <<"Duplicate">>, FALSE)
         ELSE Goto(s, "c_insert")

TxCreateInsert ==
  \E s \in Sesiones :
    /\ pc[s] = "c_insert"
    /\ ~Locked(s, call[s].origen, call[s].destino)
    /\ UNCHANGED call
    /\ LET ins == InsertVecino(StoreTx(s), call[s].origen, call[s].destino,
                               call[s].distancia)
       IN IF ~ins.ok
            THEN Finish(s, <<"Error">>, FALSE)
            ELSE Execute(s, ins.st, "c_commit")

\* update_connection up to the branch on parada_destino_anterior_id
TxCallUpdate ==
  \E s \in Sesiones, d \in DestinosTx, dist \in DistanciasTx,
     anterior \in {0} \cup DestinosTx :
    /\ pc[s] = "idle"
    /\ call' = [call EXCEPT ![s] = [op |-> "update", origen |-> 1, destino |-> d,
                                    distancia |-> dist, anterior |-> anterior,
                                    raced |-> FALSE]]
    /\ IF 1 = d
         THEN Finish(s, <<"SelfLoop">>, FALSE)
       ELSE IF dist < 0
         THEN Finish(s, <<"NegativeDistance">>, FALSE)
       ELSE IF CountRuta(StoreTx(s), 1, 1) = 0
         THEN Finish(s, <<"RouteNotFound">>, FALSE)
       ELSE IF CountParadasEnRuta(StoreTx(s), 1, 1, d) # 2
         THEN Finish(s, <<"InvalidEndpoint">>, FALSE)
       ELSE IF anterior # 0 /\ d # anterior
         THEN Goto(s, "r_old")
         ELSE Goto(s, "u_exists")

TxRetargetOld ==
  \E s \in Sesiones :
    /\ pc[s] = "r_old"
    /\ UNCHANGED call
    /\ IF CountVecino(StoreTx(s), call[s].origen, call[s].anterior) = 0
         THEN Finish(s, <<"NotFound">>, FALSE)
         ELSE Goto(s, "r_new")

TxRetargetNew ==
  \E s \in Sesiones :
    /\ pc[s] = "r_new"
    /\ UNCHANGED call
    /\ IF CountVecino(StoreTx(s), call[s].origen, call[s].destino) > 0
         THEN Finish(s, <<"Duplicate">>, FALSE)
         ELSE Goto(s, "r_delete")

TxRetargetDelete ==
  \E s \in Sesiones :
    /\ pc[s] = "r_delete"
    /\ ~Locked(s, call[s].origen, call[s].anterior)
    /\ UNCHANGED call
    /\ Execute(s, DeleteVecino(StoreTx(s), call[s].origen, call[s].anterior), "r_insert")

TxRetargetInsert ==
  \E s \in Sesiones :
    /\ pc[s] = "r_insert"
    /\ ~Locked(s, call[s].origen, call[s].destino)
    /\ UNCHANGED call
    /\ LET ins == InsertVecino(StoreTx(s), call[s].origen, call[s].destino,
                               call[s].distancia)
       IN IF ~ins.ok
            THEN Finish(s, <<"Error">>, FALSE)
            ELSE Execute(s, ins.st, "r_commit")

TxUpdateExists ==
  \E s \in Sesiones :
    /\ pc[s] = "u_exists"
    /\ UNCHANGED call
    /\ IF CountVecino(StoreTx(s), call[s].origen, call[s].destino) = 0
         THEN Finish(s, <<"NotFound">>, FALSE)
         ELSE Goto(s, "u_update")

TxUpdateDistancia ==
  \E s \in Sesiones :
    /\ pc[s] = "u_update"
    /\ ~Locked(s, call[s].origen, call[s].destino)
    /\ UNCHANGED call
    /\ Execute(s, UpdateVecino(StoreTx(s), call[s].origen, call[s].destino,
                               call[s].distancia), "u_commit")

\* connection.commit() and the return of the success dict. raced marks the
\* create_connection calls in progress on a pair that this create_connection
\* has just stored, and unmarks those on a pair this call has removed
TxCommit ==
  \E s \in Sesiones :
    /\ pc[s] \in {"c_commit", "r_commit", "u_commit"}
    /\ vecinos' = Commit(Store, StoreTx(s)).vecinos
    /\ tx' = [tx EXCEPT ![s] = NoTx]
    /\ ret' = [ret EXCEPT ![s] = [success |-> TRUE, message |-> <<"Ok">>,
                                  fault |-> FALSE, at |-> pc[s]]]
    /\ pc' = [pc EXCEPT ![s] = "done"]
    /\ call' = [t \in Sesiones |->
         IF t = s \/ call[t].op # "create" \/ pc[t] \notin {"c_exists", "c_insert"}
           THEN call[t]
         ELSE IF <<call[t].origen, call[t].destino>> \in {Par(v) : v \in tx[s].ins}
           THEN [call[t] EXCEPT !.raced = (@ \/ call[s].op = "create")]
         ELSE IF <<call[t].origen, call[t].destino>> \in tx[s].del
           THEN [call[t] EXCEPT !.raced = FALSE]
         ELSE call[t]]
    /\ UNCHANGED <<rutas, paradas, next_ruta, next_parada, paradas_unicas, vista, db>>

\* a statement or the commit raises because the store is unavailable (lost
\* connection, lock wait timeout, deadlock victim): the except clause
TxStoreFails ==
  \E s \in Sesiones :
    /\ pc[s] \notin {"idle", "done"}
    /\ UNCHANGED call
    /\ Finish(s, <<"Error">>, TRUE)

\* the caller has the dict; the session is free for its next call
TxReturn ==
  \E s \in Sesiones :
    /\ pc[s] = "done"
    /\ pc' = [pc EXCEPT ![s] = "idle"]
    /\ call' = [call EXCEPT ![s] = NoCall]
    /\ ret' = [ret EXCEPT ![s] = NoRet]
    /\ UNCHANGED <<rutas, paradas, vecinos, next_ruta, next_parada, tx, paradas_unicas, vista, db>>

NextTx ==
  \/ TxCallCreate
  \/ TxCreateExists
  \/ TxCreateInsert
  \/ TxCallUpdate
  \/ TxRetargetOld
  \/ TxRetargetNew
  \/ TxRetargetDelete
  \/ TxRetargetInsert
  \/ TxUpdateExists
  \/ TxUpdateDistancia
  \/ TxCommit
  \/ TxStoreFails
  \/ TxReturn

SpecTx == InitTx /\ [][NextTx]_vars


\* ------------------------------------------------------------------ stop sessions
\* create_stop and update_stop executed statement by statement by concurrent
\* sessions on two Routes of user 1, under either schema of paradas.

StopStore ==
  [rutas |-> {[id |-> r, usuario_id |-> 1, nombre |-> NombreDe(r + 1),
               descripcion |-> << >>] : r \in 1..MaxRutaId},
   paradas |-> {},
   vecinos |-> {},
   next_ruta |-> MaxRutaId + 1,
   next_parada |-> 1]

\* names the concurrent callers pass: two names, one of them also padded
NombresSt == {NombreDe(1), NombreDe(1) \o <<" ">>, NombreDe(2)}

NoCallSt == [op |-> "none", stop_id |-> 0, route_id |-> 0, nombre |-> << >>]

\* the rows of paradas as the connection of session s sees them
ViewParadas(s) == {p \in paradas : p.id \notin tx[s].del} \cup tx[s].ins

StoreSt(s) == [Store EXCEPT !.paradas = ViewParadas(s)]

\* the uncommitted writes that turn the committed rows of paradas into view
WritesParadas(view) == [del |-> {p.id : p \in paradas \ view}, ins |-> view \ paradas]

\* SELECT COUNT(*) FROM paradas WHERE ruta_id = %s AND nombre = %s AND id != %s
\* (create_stop has no id to exclude: stop_id = 0)
CountNombre(st, route_id, nombre, stop_id) ==
  Cardinality({p \in st.paradas :
                 p.ruta_id = route_id /\ p.nombre = nombre /\ p.id # stop_id})

\* another session holds an uncommitted write on the row stop_id, or, under
\* the unique key, on a row with this Route and name
LockedSt(s, stop_id, route_id, nombre) ==
  \E t \in Sesiones \ {s} :
    \/ stop_id \in tx[t].del
    \/ paradas_unicas /\ \E p \in tx[t].ins : p.ruta_id = route_id /\ p.nombre = nombre

\* INSERT INTO paradas (ruta_id, nombre, descripcion): raises under the unique
\* key when the Route already has the name
InsertParada(st, route_id, nombre) ==
  IF paradas_unicas /\ CountNombre(st, route_id, nombre, 0) > 0
    THEN [ok |-> FALSE, st |-> st]
    ELSE [ok |-> TRUE,
          st |-> [st EXCEPT !.paradas = @ \cup {[id |-> st.next_parada,
                                                 ruta_id |-> route_id,
                                                 nombre |-> nombre]},
                            !.next_parada = @ + 1]]

\* UPDATE paradas SET nombre = %s WHERE id = %s AND ruta_id = %s
UpdateParada(st, stop_id, route_id, nombre) ==
  IF paradas_unicas /\ CountNombre(st, route_id, nombre, stop_id) > 0
       /\ \E p \in st.paradas : p.id = stop_id /\ p.ruta_id = route_id
    THEN [ok |-> FALSE, st |-> st]
    ELSE [ok |-> TRUE,
          st |-> [st EXCEPT !.paradas =
                    {IF p.id = stop_id /\ p.ruta_id = route_id
                       THEN [p EXCEPT !.nombre = nombre] ELSE p : p \in @}]]

GotoSt(s, l) ==
  /\ pc' = [pc EXCEPT ![s] = l]
  /\ UNCHANGED <<rutas, paradas, vecinos, next_ruta, next_parada, tx, ret, paradas_unicas, vista, db>>

\* cursor.execute of a write on paradas; the AUTO_INCREMENT counter moves at
\* once and is not part of the transaction
ExecuteSt(s, st, l) ==
  /\ tx' = [tx EXCEPT ![s] = WritesParadas(st.paradas)]
  /\ next_parada' = st.next_parada
  /\ pc' = [pc EXCEPT ![s] = l]
  /\ UNCHANGED <<rutas, paradas, vecinos, next_ruta, ret, paradas_unicas, vista, db>>

FinishSt(s, mensaje, fault) ==
  /\ paradas' = Disconnect(Store, StoreSt(s)).paradas
  /\ tx' = [tx EXCEPT ![s] = NoTx]
  /\ ret' = [ret EXCEPT ![s] = [success |-> FALSE, message |-> mensaje,
                                fault |-> fault, at |-> pc[s]]]
  /\ pc' = [pc EXCEPT ![s] = "done"]
  /\ UNCHANGED <<rutas, vecinos, next_ruta, next_parada, paradas_unicas, vista, db>>

InitSt ==
  /\ rutas = StopStore.rutas
  /\ paradas = StopStore.paradas
  /\ vecinos = StopStore.vecinos
  /\ next_ruta = StopStore.next_ruta
  /\ next_parada = StopStore.next_parada
  /\ pc = [s \in Sesiones |-> "idle"]
  /\ call = [s \in Sesiones |-> NoCallSt]
  /\ tx = [s \in Sesiones |-> NoTx]
  /\ ret = [s \in Sesiones |-> NoRet]
  /\ paradas_unicas \in BOOLEAN
  /\ vista = NoVista
  /\ db = NoDb

\* create_stop up to the duplicate query
StCallCreate ==
  \E s \in Sesiones, r \in RutaArgs, n \in NombresSt :
    /\ pc[s] = "idle"
    /\ next_parada + Cardinality({t \in Sesiones : pc[t] \in {"s_dup", "s_insert"}})
         <= MaxParadaId
    /\ call' = [call EXCEPT ![s] = [op |-> "create_stop", stop_id |-> 0,
                                    route_id |-> r, nombre |-> n]]
    /\ IF ~Parada_is_valid(r, n)
         THEN FinishSt(s, Parada_get_validation_errors(r, n), FALSE)
       ELSE IF CountRuta(StoreSt(s), r, 1) = 0
         THEN FinishSt(s, <<"RouteNotFound">>, FALSE)
       ELSE GotoSt(s, "s_dup")

StCreateDup ==
  \E s \in Sesiones :
    /\ pc[s] = "s_dup"
    /\ UNCHANGED call
    /\ IF CountNombre(StoreSt(s), call[s].route_id, Strip(call[s].nombre), 0) > 0
         THEN FinishSt(s, <<"DuplicateName">>, FALSE)
         ELSE GotoSt(s, "s_insert")

StCreateInsert ==
  \E s \in Sesiones :
    /\ pc[s] = "s_insert"
    /\ ~LockedSt(s, 0, call[s].route_id, Strip(call[s].nombre))
    /\ UNCHANGED call
    /\ LET ins == InsertParada(StoreSt(s), call[s].route_id, Strip(call[s].nombre))
       IN IF ~ins.ok
            THEN FinishSt(s, <<"Error">>, FALSE)
            ELSE ExecuteSt(s, ins.st, "s_commit")

\* update_stop up to the duplicate query
StCallUpdate ==
  \E s \in Sesiones, id \in 1..MaxParadaId, r \in RutaArgs, n \in NombresSt :
    /\ pc[s] = "idle"
    /\ call' = [call EXCEPT ![s] = [op |-> "update_stop", stop_id |-> id,
                                    route_id |-> r, nombre |-> n]]
    /\ IF n = << >> \/ Strip(n) = << >>
         THEN FinishSt(s, <<"NameRequired">>, FALSE)
       ELSE IF CountParadaDeUsuario(StoreSt(s), id, r, 1) = 0
         THEN FinishSt(s, <<"StopNotFound">>, FALSE)
       ELSE GotoSt(s, "p_dup")

StUpdateDup ==
  \E s \in Sesiones :
    /\ pc[s] = "p_dup"
    /\ UNCHANGED call
    /\ IF CountNombre(StoreSt(s), call[s].route_id, Strip(call[s].nombre),
                      call[s].stop_id) > 0
         THEN FinishSt(s, <<"DuplicateName">>, FALSE)
         ELSE GotoSt(s, "p_update")

StUpdateExecute ==
  \E s \in Sesiones :
    /\ pc[s] = "p_update"
    /\ ~LockedSt(s, call[s].stop_id, call[s].route_id, Strip(call[s].nombre))
    /\ UNCHANGED call
    /\ LET upd == UpdateParada(StoreSt(s), call[s].stop_id, call[s].route_id,
                               Strip(call[s].nombre))
       IN IF ~upd.ok
            THEN FinishSt(s, <<"Error">>, FALSE)
            ELSE ExecuteSt(s, upd.st, "p_commit")

\* connection.commit() and the return of the success dict
StCommit ==
  \E s \in Sesiones :
    /\ pc[s] \in {"s_commit", "p_commit"}
    /\ paradas' = Commit(Store, StoreSt(s)).paradas
    /\ tx' = [tx EXCEPT ![s] = NoTx]
    /\ ret' = [ret EXCEPT ![s] = [success |-> TRUE, message |-> <<"Ok">>,
                                  fault |-> FALSE, at |-> pc[s]]]
    /\ pc' = [pc EXCEPT ![s] = "done"]
    /\ UNCHANGED <<rutas, vecinos, next_ruta, next_parada, call, paradas_unicas, vista, db>>

\* a statement or the commit raises because the store is unavailable
StStoreFails ==
  \E s \in Sesiones :
    /\ pc[s] \notin {"idle", "done"}
    /\ UNCHANGED call
    /\ FinishSt(s, <<"Error">>, TRUE)

StReturn ==
  \E s \in Sesiones :
    /\ pc[s] = "done"
    /\ pc' = [pc EXCEPT ![s] = "idle"]
    /\ call' = [call EXCEPT ![s] = NoCallSt]
    /\ ret' = [ret EXCEPT ![s] = NoRet]
    /\ UNCHANGED <<rutas, paradas, vecinos, next_ruta, next_parada, tx, paradas_unicas, vista, db>>

NextSt ==
  \/ StCallCreate
  \/ StCreateDup
  \/ StCreateInsert
  \/ StCallUpdate
  \/ StUpdateDup
  \/ StUpdateExecute
  \/ StCommit
  \/ StStoreFails
  \/ StReturn

SpecSt == InitSt /\ [][NextSt]_vars


\* ------------------------------------------------------------------ RutaGraphView
MaxAristas == 3

\* distances of the Connections of the graphs explored
PesosGrafo == {0, 1, 3}

\* ordered pairs of distinct Stops
ParesGrafo == {p \in (1..MaxParadaId) \X (1..MaxParadaId) : p[1] # p[2]}

\* the store the view is opened on: one Route of user 1 with every Stop, and
\* the Connections of pairs with distances w
GraphStore(pairs, w) ==
  [rutas |-> {[id |-> 1, usuario_id |-> 1, nombre |-> NombreDe(2), descripcion |-> << >>]},
   paradas |-> {[id |-> i, ruta_id |-> 1, nombre |-> NombreDe(i)] : i \in 1..MaxParadaId},
   vecinos |-> {Vecino(p[1], p[2], w[p]) : p \in pairs},
   next_ruta |-> 2,
   next_parada |-> MaxParadaId + 1]

\* nx.DiGraph(): the graph __init__ creates, and the one graph.clear() leaves
DiGraph == [nodes |-> {}, edges |-> {}]

\* graph.add_node(parada.id, ...) for each Stop passed to create()
add_nodes(G, ps) == [G EXCEPT !.nodes = @ \cup {p.id : p \in ps}]

\* graph.add_edge(origen, destino, distancia=...) for each Connection passed to
\* create(): adds the endpoints as nodes and replaces the data of an edge
\* between the same ordered pair
add_edges(G, cs) ==
  [nodes |-> G.nodes \cup {c.parada_origen_id : c \in cs}
               \cup {c.parada_destino_id : c \in cs},
   edges |-> {e \in G.edges :
                ~ \E c \in cs : /\ c.parada_origen_id = e.parada_origen_id
                                /\ c.parada_destino_id = e.parada_destino_id}
             \cup {Vecino(c.parada_origen_id, c.parada_destino_id, c.distancia) : c \in cs}]

\* _build_graph without the graph.clear() of its first statement
build_graph_NoClear(G, ps, cs) == add_edges(add_nodes(G, ps), cs)

\* _build_graph on self.graph = G: clear, a node per Stop, an edge per Connection
build_graph(G, ps, cs) == add_edges(add_nodes(DiGraph, ps), cs)

\* the graph of Route 1 as its owner gets it from the controllers
Grafo ==
  build_graph(DiGraph, get_route_stops(Store, 1, 1).res.datos,
              get_route_connections(Store, 1, 1).res.datos)

Peso(G, u, v) ==
  (CHOOSE e \in G.edges : e.parada_origen_id = u /\ e.parada_destino_id = v).distancia

Sucesores(G, u) == {e.parada_destino_id : e \in {x \in G.edges : x.parada_origen_id = u}}

RECURSIVE SumaPesos(_)
SumaPesos(es) ==
  IF es = {} THEN 0
  ELSE LET e == CHOOSE x \in es : TRUE IN e.distancia + SumaPesos(es \ {e})

\* the distance of a node not reached: more than any path can weigh
Inalcanzable(G) == SumaPesos(G.edges) + 1

\* Dijkstra's algorithm with the hop count in place of the distance
RECURSIVE DijkstraLoop_Hops(_, _, _)
DijkstraLoop_Hops(G, dist, done) ==
  LET cand == {n \in G.nodes \ done : dist[n] < Inalcanzable(G) + Cardinality(G.nodes)}
  IN IF cand = {} THEN dist
     ELSE LET u == CHOOSE n \in cand : \A m \in cand : dist[n] <= dist[m]
              nd == [v \in G.nodes |->
                       IF v \notin done /\ v \in Sucesores(G, u) /\ dist[u] + 1 < dist[v]
                         THEN dist[u] + 1 ELSE dist[v]]
          IN DijkstraLoop_Hops(G, nd, done \cup {u})

\* Dijkstra's algorithm: settle the nearest open node, relax its out-edges
RECURSIVE DijkstraLoop(_, _, _)
DijkstraLoop(G, dist, done) ==
  LET cand == {n \in G.nodes \ done : dist[n] < Inalcanzable(G)}
  IN IF cand = {} THEN dist
     ELSE LET u == CHOOSE n \in cand : \A m \in cand : dist[n] <= dist[m]
              nd == [v \in G.nodes |->
                       IF v \notin done /\ v \in Sucesores(G, u)
                            /\ dist[u] + Peso(G, u, v) < dist[v]
                         THEN dist[u] + Peso(G, u, v) ELSE dist[v]]
          IN DijkstraLoop(G, nd, done \cup {u})

Dijkstra(G, s) ==
  DijkstraLoop(G, [n \in G.nodes |-> IF n = s THEN 0 ELSE Inalcanzable(G)], {})

\* node sequences without repetition that follow edges of G
Caminos(G) ==
  {p \in UNION {[1..k -> G.nodes] : k \in 1..Cardinality(G.nodes)} :
     /\ \A i \in 1..Len(p), j \in 1..Len(p) : p[i] = p[j] => i = j
     /\ \A i \in 1..(Len(p) - 1) : p[i + 1] \in Sucesores(G, p[i])}

RECURSIVE Longitud(_, _)
Longitud(G, p) ==
  IF Len(p) <= 1 THEN 0
  ELSE Peso(G, p[1], p[2]) + Longitud(G, Tail(p))

\* the search on the graph with every edge usable in both directions, as on an
\* undirected nx.Graph
nx_shortest_path_Undirected(G, s, t) ==
  LET U == [nodes |-> G.nodes,
            edges |-> G.edges \cup {Vecino(e.parada_destino_id, e.parada_origen_id,
                                            e.distancia) : e \in G.edges}]
      dist == Dijkstra(U, s)
  IN {p \in Caminos(U) :
        /\ p[1] = s /\ p[Len(p)] = t
        /\ dist[t] < Inalcanzable(U)}

\* nx.shortest_path(G, source, target, weight, method='dijkstra'): the paths
\* the search may return, those whose every prefix is a shortest path (which
\* of them it returns depends on the order it breaks ties in)
nx_shortest_path(G, s, t) ==
  LET dist == Dijkstra(G, s)
  IN {p \in Caminos(G) :
        /\ p[1] = s /\ p[Len(p)] = t
        /\ \A i \in 1..Len(p) : Longitud(G, SubSeq(p, 1, i)) = dist[p[i]]}

\* nx.shortest_path_length(G, source, target, weight, method='dijkstra')
nx_shortest_path_length(G, s, t) == Dijkstra(G, s)[t]

\* _calculate_shortest_path: the views the handler may leave
calculate_shortest_path_NoGuard(v, G) ==
  IF v.start_node = 0 \/ v.end_node = 0
    THEN {[v EXCEPT !.message = "warning_select"]}
  ELSE IF v.start_node \notin G.nodes \/ v.end_node \notin G.nodes
    THEN {[v EXCEPT !.message = "error_node_not_found"]}
  ELSE IF nx_shortest_path(G, v.start_node, v.end_node) = {}
    THEN {[v EXCEPT !.message = "error_no_path"]}
  ELSE {[v EXCEPT !.shortest_path = p,
                  !.path_length = nx_shortest_path_length(G, v.start_node, v.end_node),
                  !.message = "success"] :
          p \in nx_shortest_path(G, v.start_node, v.end_node)}

calculate_shortest_path(v, G) ==
  IF v.start_node = 0 \/ v.end_node = 0
    THEN {[v EXCEPT !.message = "warning_select"]}
  ELSE IF v.start_node = v.end_node
    THEN {[v EXCEPT !.message = "warning_same"]}
  ELSE IF v.start_node \notin G.nodes \/ v.end_node \notin G.nodes
    THEN {[v EXCEPT !.message = "error_node_not_found"]}
  ELSE IF nx_shortest_path(G, v.start_node, v.end_node) = {}
    THEN {[v EXCEPT !.message = "error_no_path"]}
  ELSE {[v EXCEPT !.shortest_path = p,
                  !.path_length = nx_shortest_path_length(G, v.start_node, v.end_node),
                  !.message = "success"] :
          p \in nx_shortest_path(G, v.start_node, v.end_node)}

InitGv ==
  /\ \E pairs \in {x \in SUBSET ParesGrafo : Cardinality(x) <= MaxAristas} :
       \E w \in [pairs -> PesosGrafo] :
         /\ rutas = GraphStore(pairs, w).rutas
         /\ paradas = GraphStore(pairs, w).paradas
         /\ vecinos = GraphStore(pairs, w).vecinos
         /\ next_ruta = GraphStore(pairs, w).next_ruta
         /\ next_parada = GraphStore(pairs, w).next_parada
  /\ pc = [s \in Sesiones |-> "idle"]
  /\ call = [s \in Sesiones |-> NoCall]
  /\ tx = [s \in Sesiones |-> NoTx]
  /\ ret = [s \in Sesiones |-> NoRet]
  /\ paradas_unicas = FALSE
  /\ vista = NoVista
  /\ db = NoDb

GvKeep == UNCHANGED <<rutas, paradas, vecinos, next_ruta, next_parada, pc, call, tx, ret,
                      paradas_unicas, db>>

\* _on_start_node_change: the dropdown offers the Stops of the Route
GvStartNodeChange ==
  \E n \in 1..MaxParadaId :
    /\ vista' = [vista EXCEPT !.start_node = n]
    /\ GvKeep

GvEndNodeChange ==
  \E n \in 1..MaxParadaId :
    /\ vista' = [vista EXCEPT !.end_node = n]
    /\ GvKeep

GvCalculateShortestPath ==
  /\ vista' \in calculate_shortest_path(vista, Grafo)
  /\ GvKeep

\* _regenerate_graph: back to no selection and no path
GvRegenerateGraph ==
  /\ vista' = [vista EXCEPT !.start_node = 0, !.end_node = 0, !.shortest_path = << >>,
                            !.message = "success"]
  /\ GvKeep

\* _on_layout_change: stores the layout and calls _regenerate_graph
GvLayoutChange ==
  /\ vista' = [vista EXCEPT !.start_node = 0, !.end_node = 0, !.shortest_path = << >>,
                            !.message = "success"]
  /\ GvKeep

NextGv ==
  \/ GvStartNodeChange
  \/ GvEndNodeChange
  \/ GvCalculateShortestPath
  \/ GvRegenerateGraph
  \/ GvLayoutChange

SpecGv == InitGv /\ [][NextGv]_vars


\* ------------------------------------------------------------------ listing order
\* The graph view on the lists the controllers return, in the order they
\* return them: nx.DiGraph keeps the neighbours of a node in the order
\* add_edge met them, and the search visits them in that order.
MaxNodos == 4

PesosOrd == {1, 2}

\* the pairs a Connection may join: from the lower id to the higher, the first
\* Stop and the last having no Connection of their own, so that every route
\* between them goes through a Stop in the middle
ParesOrd ==
  {p \in (1..MaxNodos) \X (1..MaxNodos) : p[1] < p[2] /\ p[1] + p[2] # MaxNodos + 1}

\* names of the Stops 1..MaxNodos: in the order of their ids, and in the
\* opposite order
NombresOrd ==
  {[i \in 1..MaxNodos |-> NombreDe(i)], [i \in 1..MaxNodos |-> NombreDe(MaxNodos + 1 - i)]}

\* one Route of user 1 whose Stops are named nm, with the Connections of pairs
OrdStore(nm, pairs, w) ==
  [rutas |-> {[id |-> 1, usuario_id |-> 1, nombre |-> NombreDe(2), descripcion |-> << >>]},
   paradas |-> {[id |-> i, ruta_id |-> 1, nombre |-> nm[i]] : i \in 1..MaxNodos},
   vecinos |-> {Vecino(p[1], p[2], w[p]) : p \in pairs},
   next_ruta |-> 2,
   next_parada |-> MaxNodos + 1]

\* ORDER BY on nombre, for names written with one letter: a sorts before b
\* when it is the shorter
Precede(a, b) == Len(a) < Len(b)

NombreDeParada(st, id) == (CHOOSE p \in st.paradas : p.id = id).nombre

\* ORDER BY po.nombre, pd.nombre
AntesQue(st, x, y) ==
  LET xo == NombreDeParada(st, x.parada_origen_id)
      yo == NombreDeParada(st, y.parada_origen_id)
      xd == NombreDeParada(st, x.parada_destino_id)
      yd == NombreDeParada(st, y.parada_destino_id)
  IN Precede(xo, yo) \/ (xo = yo /\ (Precede(xd, yd) \/ xd = yd))

\* the rows in the order of their ids instead
AntesQue_PorId(st, x, y) ==
  \/ x.parada_origen_id < y.parada_origen_id
  \/ x.parada_origen_id = y.parada_origen_id /\ x.parada_destino_id <= y.parada_destino_id

RECURSIVE Ordenar_PorId(_, _)
Ordenar_PorId(st, S) ==
  IF S = {} THEN << >>
  ELSE LET m == CHOOSE x \in S : \A y \in S : AntesQue_PorId(st, x, y)
       IN <<m>> \o Ordenar_PorId(st, S \ {m})

\* the same rows listed in the order of their ids
ListaConexiones_PorId(st, route_id) == Ordenar_PorId(st, VecinosDeRuta(st, route_id))

RECURSIVE Ordenar(_, _)
Ordenar(st, S) ==
  IF S = {} THEN << >>
  ELSE LET m == CHOOSE x \in S : \A y \in S : AntesQue(st, x, y)
       IN <<m>> \o Ordenar(st, S \ {m})

\* the list "conexiones" of get_route_connections, in the order of its query
ListaConexiones(st, route_id) == Ordenar(st, VecinosDeRuta(st, route_id))

\* G._succ[n] (dir = 1) and G._pred[n] (dir = 2) after add_edge on each
\* Connection of the list cs in turn
RECURSIVE Adyacentes(_, _, _)
Adyacentes(cs, n, dir) ==
  IF cs = << >> THEN << >>
  ELSE LET c == Head(cs)
           here == IF dir = 1 /\ c.parada_origen_id = n THEN <<c.parada_destino_id>>
                   ELSE IF dir = 2 /\ c.parada_destino_id = n THEN <<c.parada_origen_id>>
                   ELSE << >>
       IN here \o Adyacentes(Tail(cs), n, dir)

Reverse(p) == [i \in 1..Len(p) |-> p[Len(p) + 1 - i]]

\* the loop of nx.bidirectional_dijkstra over the neighbours ns of v that are
\* left: q is the state of the search (dists, seen, paths, fringe per
\* direction, the counter c that orders equal distances in the heap, and the
\* best meeting found)
RECURSIVE BidiRelax(_, _, _, _, _)
BidiRelax(G, q, dir, v, ns) ==
  IF ns = << >> THEN q
  ELSE LET w == Head(ns)
           len == q.dists[dir][v] + (IF dir = 1 THEN Peso(G, v, w) ELSE Peso(G, w, v))
       IN IF w \in DOMAIN q.dists[dir] THEN BidiRelax(G, q, dir, v, Tail(ns))
          ELSE IF w \notin DOMAIN q.seen[dir] \/ len < q.seen[dir][w]
            THEN LET seen2 == [q.seen EXCEPT ![dir] = (w :> len) @@ @]
                     paths2 == [q.paths EXCEPT ![dir] = (w :> Append(q.paths[dir][v], w)) @@ @]
                     both == w \in DOMAIN seen2[1] /\ w \in DOMAIN seen2[2]
                     better == both /\ (\/ q.finalpath = << >>
                                        \/ q.finaldist > seen2[1][w] + seen2[2][w])
                     q2 == [q EXCEPT !.seen = seen2,
                                     !.paths = paths2,
                                     !.fringe = [@ EXCEPT ![dir] = @ \cup {<<len, q.c, w>>}],
                                     !.c = @ + 1,
                                     !.finaldist = IF better THEN seen2[1][w] + seen2[2][w]
                                                   ELSE @,
                                     !.finalpath = IF better
                                                     THEN paths2[1][w]
                                                            \o Tail(Reverse(paths2[2][w]))
                                                     ELSE @]
                 IN BidiRelax(G, q2, dir, v, Tail(ns))
          ELSE BidiRelax(G, q, dir, v, Tail(ns))

RECURSIVE BidiLoop(_, _, _)
BidiLoop(G, cs, q) ==
  IF q.fringe[1] = {} \/ q.fringe[2] = {}
    THEN [outcome |-> "NetworkXNoPath", path |-> << >>]
  ELSE LET dir == 3 - q.dir
           top == CHOOSE e \in q.fringe[dir] :
                    \A f \in q.fringe[dir] : e[1] < f[1] \/ (e[1] = f[1] /\ e[2] <= f[2])
           v == top[3]
           q1 == [q EXCEPT !.dir = dir, !.fringe = [@ EXCEPT ![dir] = @ \ {top}]]
       IN IF v \in DOMAIN q.dists[dir] THEN BidiLoop(G, cs, q1)
          ELSE LET q2 == [q1 EXCEPT !.dists = [@ EXCEPT ![dir] = (v :> top[1]) @@ @]]
               IN IF v \in DOMAIN q.dists[3 - dir]
                    THEN [outcome |-> "path", path |-> q.finalpath]
                    ELSE BidiLoop(G, cs, BidiRelax(G, q2, dir, v, Adyacentes(cs, v, dir)))

\* nx.shortest_path(G, s, t, weight, method='dijkstra') on the graph whose
\* edges were added in the order of cs
bidirectional_dijkstra(G, cs, s, t) ==
  IF s \notin G.nodes \/ t \notin G.nodes THEN [outcome |-> "NodeNotFound", path |-> << >>]
  ELSE IF s = t THEN [outcome |-> "path", path |-> <<s>>]
  ELSE BidiLoop(G, cs,
         [dists |-> << << >>, << >> >>,
          seen |-> <<s :> 0, t :> 0>>,
          paths |-> <<s :> <<s>>, t :> <<t>> >>,
          fringe |-> <<{<<0, 0, s>>}, {<<0, 1, t>>}>>,
          c |-> 2, finaldist |-> 0, finalpath |-> << >>, dir |-> 2])

\* _calculate_shortest_path on the graph built from the list cs: of the views
\* the handler may leave, the one with the path the search returns for cs
calculate_shortest_path_listed(v, G, cs) ==
  {x \in calculate_shortest_path(v, G) :
     x.message = "success"
       => x.shortest_path = bidirectional_dijkstra(G, cs, v.start_node, v.end_node).path}

InitOrd ==
  /\ \E nm \in NombresOrd :
       \E pairs \in SUBSET ParesOrd :
         \E w \in [pairs -> PesosOrd] :
           /\ rutas = OrdStore(nm, pairs, w).rutas
           /\ paradas = OrdStore(nm, pairs, w).paradas
           /\ vecinos = OrdStore(nm, pairs, w).vecinos
           /\ next_ruta = OrdStore(nm, pairs, w).next_ruta
           /\ next_parada = OrdStore(nm, pairs, w).next_parada
  /\ pc = [s \in Sesiones |-> "idle"]
  /\ call = [s \in Sesiones |-> NoCall]
  /\ tx = [s \in Sesiones |-> NoTx]
  /\ ret = [s \in Sesiones |-> NoRet]
  /\ paradas_unicas = FALSE
  /\ vista = NoVista
  /\ db = NoDb

OrdStartNodeChange ==
  \E n \in 1..MaxNodos :
    /\ vista' = [vista EXCEPT !.start_node = n]
    /\ GvKeep

OrdEndNodeChange ==
  \E n \in 1..MaxNodos :
    /\ vista' = [vista EXCEPT !.end_node = n]
    /\ GvKeep

OrdCalculateShortestPath ==
  /\ vista' \in calculate_shortest_path_listed(vista, Grafo, ListaConexiones(Store, 1))
  /\ GvKeep

OrdRegenerateGraph ==
  /\ vista' = [vista EXCEPT !.start_node = 0, !.end_node = 0, !.shortest_path = << >>,
                            !.message = "success"]
  /\ GvKeep

NextOrd ==
  \/ OrdStartNodeChange
  \/ OrdEndNodeChange
  \/ OrdCalculateShortestPath
  \/ OrdRegenerateGraph

SpecOrd == InitOrd /\ [][NextOrd]_vars


\* ------------------------------------------------------------------ shared handle
\* create_connection called by concurrent threads on one ConexionesController,
\* whose calls all go through the one MySQL handle self.db. A call works on
\* the connection get_connection() gave it; the handle holds the connection
\* of the latest connect() until the next disconnect().
MaxConexiones == 3

\* the destinations thread s asks for from Stop 1: Stop 1 itself, and a Stop
\* no other thread asks for
DestinosDb(s) == {1, s + 1}

\* opened is the connection the call's own connect() created, connection the
\* local variable it works on, solo whether no other call ran meanwhile
NoCallDb ==
  [op |-> "none", origen |-> 0, destino |-> 0, distancia |-> 0, opened |-> 0,
   connection |-> 0, solo |-> TRUE]

\* MySQL.connect: self._connection becomes a new open connection; the one it
\* held is neither closed nor kept
MySQL_connect(h) ==
  [connection |-> Len(h.conns) + 1,
   conns |-> Append(h.conns, [open |-> TRUE, ins |-> {}])]

\* MySQL.get_connection
MySQL_get_connection(h) == h.connection

\* MySQL.disconnect: closes the connection the handle holds, whose uncommitted
\* statements the store discards, and sets self._connection to None
MySQL_disconnect(h) ==
  [connection |-> 0,
   conns |-> [i \in 1..Len(h.conns) |->
                IF i = h.connection THEN [open |-> FALSE, ins |-> {}] ELSE h.conns[i]]]

\* the store as connection c sees it
StoreDb(c) == [Store EXCEPT !.vecinos = @ \cup db.conns[c].ins]

\* another open connection holds an uncommitted row of the pair (o, d)
LockedDb(c, o, d) ==
  \E k \in (1..Len(db.conns)) \ {c} :
    db.conns[k].open /\ <<o, d>> \in {Par(v) : v \in db.conns[k].ins}

DbKeep == UNCHANGED <<rutas, paradas, next_ruta, next_parada, tx, paradas_unicas, vista>>

\* return of a dict from inside the try: the finally clause is next
DbReturns(s, exito, mensaje) ==
  /\ ret' = [ret EXCEPT ![s] = [success |-> exito, message |-> mensaje, fault |-> FALSE,
                                at |-> pc[s]]]
  /\ pc' = [pc EXCEPT ![s] = "finally"]

\* a statement raises: the except clause returns the generic failure
DbRaises(s) == DbReturns(s, FALSE, <<"Error">>)

DbGoto(s, l) ==
  /\ pc' = [pc EXCEPT ![s] = l]
  /\ UNCHANGED ret

InitDb ==
  /\ rutas = TxStore.rutas
  /\ paradas = TxStore.paradas
  /\ vecinos = TxStore.vecinos
  /\ next_ruta = TxStore.next_ruta
  /\ next_parada = TxStore.next_parada
  /\ pc = [s \in Sesiones |-> "idle"]
  /\ call = [s \in Sesiones |-> NoCallDb]
  /\ tx = [s \in Sesiones |-> NoTx]
  /\ ret = [s \in Sesiones |-> NoRet]
  /\ paradas_unicas = FALSE
  /\ vista = NoVista
  /\ db = NoDb

\* create_connection up to self.db.connect(): the validation of the arguments
DbCall ==
  \E s \in Sesiones : \E d \in DestinosDb(s), dist \in DistanciasTx :
    /\ pc[s] = "idle"
    /\ Len(db.conns) + Cardinality({t \in Sesiones : pc[t] = "connect"}) < MaxConexiones
    /\ call' = [t \in Sesiones |->
         IF t = s
           THEN [op |-> "create", origen |-> 1, destino |-> d, distancia |-> dist,
                 opened |-> 0, connection |-> 0,
                 solo |-> \A x \in Sesiones \ {s} : pc[x] = "idle"]
         ELSE IF pc[t] = "idle" THEN call[t]
         ELSE [call[t] EXCEPT !.solo = FALSE]]
    /\ IF ~Conexion_is_valid(1, d, dist)
         THEN DbReturns(s, FALSE, Conexion_get_validation_errors(1, d, dist))
         ELSE DbGoto(s, "connect")
    /\ UNCHANGED <<vecinos, db>>
    /\ DbKeep

\* self.db.connect()
DbConnect ==
  \E s \in Sesiones :
    /\ pc[s] = "connect"
    /\ db' = MySQL_connect(db)
    /\ call' = [call EXCEPT ![s].opened = Len(db.conns) + 1]
    /\ DbGoto(s, "get_connection")
    /\ UNCHANGED vecinos
    /\ DbKeep

\* connection = self.db.get_connection(); connection.cursor(dictionary=True)
\* raises on None
DbGetConnection ==
  \E s \in Sesiones :
    /\ pc[s] = "get_connection"
    /\ call' = [call EXCEPT ![s].connection = MySQL_get_connection(db)]
    /\ IF MySQL_get_connection(db) = 0 THEN DbRaises(s) ELSE DbGoto(s, "checks")
    /\ UNCHANGED <<vecinos, db>>
    /\ DbKeep

\* the three SELECTs on the call's connection
DbChecks ==
  \E s \in Sesiones :
    LET c == call[s].connection
        o == call[s].origen
        d == call[s].destino
    IN /\ pc[s] = "checks"
       /\ IF ~db.conns[c].open THEN DbRaises(s)
          ELSE IF CountRuta(StoreDb(c), 1, 1) = 0
            THEN DbReturns(s, FALSE, <<"RouteNotFound">>)
          ELSE IF CountParadasEnRuta(StoreDb(c), 1, o, d) # 2
            THEN DbReturns(s, FALSE, <<"InvalidEndpoint">>)
          ELSE IF CountVecino(StoreDb(c), o, d) > 0
            THEN DbReturns(s, FALSE, <<"Duplicate">>)
          ELSE DbGoto(s, "insert")
       /\ UNCHANGED <<vecinos, db, call>>
       /\ DbKeep

\* cursor.execute(insert_query, ...) on the call's connection
DbInsert ==
  \E s \in Sesiones :
    LET c == call[s].connection
        o == call[s].origen
        d == call[s].destino
        ins == InsertVecino(StoreDb(c), o, d, call[s].distancia)
    IN /\ pc[s] = "insert"
       /\ db.conns[c].open => ~LockedDb(c, o, d)
       /\ IF ~db.conns[c].open \/ ~ins.ok
            THEN DbRaises(s) /\ UNCHANGED db
            ELSE /\ db' = [db EXCEPT !.conns[c].ins = @ \cup {Vecino(o, d, call[s].distancia)}]
                 /\ DbGoto(s, "commit")
       /\ UNCHANGED <<vecinos, call>>
       /\ DbKeep

\* connection.commit() and the return of the success dict
DbCommit ==
  \E s \in Sesiones :
    LET c == call[s].connection
    IN /\ pc[s] = "commit"
       /\ IF ~db.conns[c].open
            THEN DbRaises(s) /\ UNCHANGED <<vecinos, db>>
            ELSE /\ vecinos' = Commit(Store, StoreDb(c)).vecinos
                 /\ db' = [db EXCEPT !.conns[c].ins = {}]
                 /\ DbReturns(s, TRUE, <<"Ok">>)
       /\ UNCHANGED call
       /\ DbKeep

\* finally: self.db.disconnect()
DbFinally ==
  \E s \in Sesiones :
    /\ pc[s] = "finally"
    /\ db' = MySQL_disconnect(db)
    /\ pc' = [pc EXCEPT ![s] = "done"]
    /\ UNCHANGED <<vecinos, call, ret>>
    /\ DbKeep

\* the caller has the dict; the thread is free for its next call
DbReturn ==
  \E s \in Sesiones :
    /\ pc[s] = "done"
    /\ pc' = [pc EXCEPT ![s] = "idle"]
    /\ call' = [call EXCEPT ![s] = NoCallDb]
    /\ ret' = [ret EXCEPT ![s] = NoRet]
    /\ UNCHANGED <<vecinos, db>>
    /\ DbKeep

NextDb ==
  \/ DbCall
  \/ DbConnect
  \/ DbGetConnection
  \/ DbChecks
  \/ DbInsert
  \/ DbCommit
  \/ DbFinally
  \/ DbReturn

SpecDb == InitDb /\ [][NextDb]_vars


\* ------------------------------------------------------------------ properties
\* Route r exists and user u owns it
OwnedRoute(r, u) == \E x \in rutas : x.id = r /\ x.usuario_id = u

\* Route r exists and belongs to a user other than u
ForeignRoute(r, u) == \E x \in rutas : x.id = r /\ x.usuario_id # u

\* s is a Stop of Route r
StopOf(s, r) == \E p \in paradas : p.id = s /\ p.ruta_id = r

\* a Connection from o to d is stored
HasEdge(o, d) == \E v \in vecinos : v.parada_origen_id = o /\ v.parada_destino_id = d

StopIds == 1..MaxParadaId

NonNegative == {x \in Distancias : x >= 0}

Failed(x, kind) == ~x.res.success /\ x.res.message = <<kind>> /\ x.res.datos = {}

\* C1: for every Stop a of an owned Route and every distance d (negative, zero
\* or positive), create_connection(route, owner, a, a, d) fails, the error it
\* reports first is SelfLoop, and no Connection is inserted.
C1_SelfLoop ==
  \A r \in RutaArgs, u \in Usuarios, a \in StopIds, d \in Distancias :
    (OwnedRoute(r, u) /\ StopOf(a, r)) =>
      LET x == create_connection(Store, r, u, a, a, d)
      IN /\ ~x.res.success
         /\ Len(x.res.message) >= 1
         /\ x.res.message[1] = "SelfLoop"
         /\ x.st = Store

\* a Stop of an owned Route that already has a Connection is offered as both
\* endpoints with a negative distance, and the call is refused as a self-loop
C1_Witness ==
  \E r \in RutaArgs, u \in Usuarios, a \in StopIds :
    /\ OwnedRoute(r, u) /\ StopOf(a, r)
    /\ \E v \in vecinos : v.parada_origen_id = a
    /\ create_connection(Store, r, u, a, a, -1).res.message[1] = "SelfLoop"
    /\ ~create_connection(Store, r, u, a, a, 0).res.success

\* C2: at most one Connection is stored per ordered pair; for a stored edge
\* (a, b, d) of an owned Route a further create_connection(a, b, d2) fails with
\* Duplicate and changes nothing, while create_connection(b, a, d2), when (b, a)
\* is not yet stored, succeeds and adds exactly the edge (b, a, d2).
C2_OnePerOrderedPair ==
  /\ \A v \in vecinos, w \in vecinos :
       (v.parada_origen_id = w.parada_origen_id
          /\ v.parada_destino_id = w.parada_destino_id) => v = w
  /\ \A r \in RutaArgs, u \in Usuarios, v \in vecinos, d2 \in NonNegative :
       (OwnedRoute(r, u) /\ StopOf(v.parada_origen_id, r) /\ StopOf(v.parada_destino_id, r)) =>
         LET a == v.parada_origen_id
             b == v.parada_destino_id
             dup == create_connection(Store, r, u, a, b, d2)
             rev == create_connection(Store, r, u, b, a, d2)
         IN /\ Failed(dup, "Duplicate")
            /\ dup.st = Store
            /\ ~HasEdge(b, a) =>
                 /\ rev.res.success
                 /\ rev.st = [Store EXCEPT !.vecinos = @ \cup {Vecino(b, a, d2)}]
                 /\ v \in rev.st.vecinos

\* both directions between two Stops are stored, with different distances
C2_Witness ==
  \E v \in vecinos, w \in vecinos :
    /\ w.parada_origen_id = v.parada_destino_id
    /\ w.parada_destino_id = v.parada_origen_id
    /\ v.distancia # w.distancia
    /\ \E r \in RutaArgs, u \in Usuarios :
         /\ OwnedRoute(r, u)
         /\ Failed(create_connection(Store, r, u, v.parada_origen_id, v.parada_destino_id,
                                     w.distancia), "Duplicate")

\* C4: for Stops a # b of an owned Route and a distance d < 0,
\* create_connection(a, b, d) reports the negative distance and the stored
\* Connections are unchanged.
C4_NegativeDistance ==
  \A r \in RutaArgs, u \in Usuarios, a \in StopIds, b \in StopIds, d \in Distancias :
    (OwnedRoute(r, u) /\ StopOf(a, r) /\ StopOf(b, r) /\ a # b /\ d < 0) =>
      LET x == create_connection(Store, r, u, a, b, d)
      IN Failed(x, "NegativeDistance") /\ x.st = Store

\* two Stops of an owned Route with no Connection between them: the call with
\* distance -1 is refused, the same call with distance 0 would be accepted
C4_Witness ==
  \E r \in RutaArgs, u \in Usuarios, a \in StopIds, b \in StopIds :
    /\ OwnedRoute(r, u) /\ StopOf(a, r) /\ StopOf(b, r) /\ a # b
    /\ ~HasEdge(a, b)
    /\ Failed(create_connection(Store, r, u, a, b, -1), "NegativeDistance")
    /\ create_connection(Store, r, u, a, b, 0).res.success


\* the outcome the order (1) Route ownership, (2) both endpoints belong to the
\* Route, (3) origin # destination, (4) distance >= 0 asks for, "" when none of
\* the four checks fails
EarliestFailing(r, u, o, d, dist) ==
  IF ~OwnedRoute(r, u) THEN "RouteNotFound"
  ELSE IF ~(StopOf(o, r) /\ StopOf(d, r)) THEN "InvalidEndpoint"
  ELSE IF o = d THEN "SelfLoop"
  ELSE IF dist < 0 THEN "NegativeDistance"
  ELSE ""

\* C5: a create_connection or update_connection call on an existing Route that
\* fails one or more of the checks (1) Route ownership, (2) both endpoints
\* belong to the Route, (3) origin # destination, (4) distance >= 0 reports the
\* earliest failing one in that order, and a create_connection call that passes
\* the four reports Duplicate exactly when (5) the ordered pair is stored.
C5_ValidationOrder ==
  \A r \in RutaArgs, u \in Usuarios, o \in StopIds, d \in StopIds, dist \in Distancias :
    (\E x \in rutas : x.id = r) =>
      LET want == EarliestFailing(r, u, o, d, dist)
          c == create_connection(Store, r, u, o, d, dist)
      IN /\ want # "" =>
              /\ c.res.message[1] = want
              /\ \A ant \in ParadaArgs :
                   update_connection(Store, r, u, o, d, dist, ant).res.message[1] = want
         /\ want = "" => (HasEdge(o, d) <=> Failed(c, "Duplicate"))

\* C6: update_connection(origin, new_dest, d, previous_dest) on an owned Route
\* with both endpoints in it, origin # new_dest, d >= 0 and previous_dest
\* supplied and different from new_dest: NotFound when (origin, previous_dest)
\* is not stored, else Duplicate when (origin, new_dest) is stored, both leaving
\* the store unchanged; otherwise success, (origin, previous_dest) is gone,
\* (origin, new_dest, d) is stored and every other Connection is unchanged.
C6_Retarget ==
  \A r \in RutaArgs, u \in Usuarios, o \in StopIds, d \in StopIds,
     dist \in NonNegative, ant \in StopIds \cup {NoParada} :
    (OwnedRoute(r, u) /\ StopOf(o, r) /\ StopOf(d, r) /\ o # d /\ ant # d) =>
      LET x == update_connection(Store, r, u, o, d, dist, ant)
      IN IF ~HasEdge(o, ant) THEN Failed(x, "NotFound") /\ x.st = Store
         ELSE IF HasEdge(o, d) THEN Failed(x, "Duplicate") /\ x.st = Store
         ELSE /\ x.res.success
              /\ x.st = [Store EXCEPT !.vecinos =
                   {v \in @ : ~(v.parada_origen_id = o /\ v.parada_destino_id = ant)}
                     \cup {Vecino(o, d, dist)}]
              /\ Cardinality(x.st.vecinos) = Cardinality(vecinos)

\* an edge (o, ant) and an unrelated edge are stored, (o, d) is not, and the
\* re-target to d with a different distance succeeds
C6_Witness ==
  \E r \in RutaArgs, u \in Usuarios, v \in vecinos, w \in vecinos, d \in StopIds :
    /\ v # w
    /\ w.parada_origen_id # v.parada_origen_id
    /\ OwnedRoute(r, u) /\ StopOf(v.parada_origen_id, r) /\ StopOf(d, r)
    /\ d # v.parada_origen_id /\ d # v.parada_destino_id
    /\ ~HasEdge(v.parada_origen_id, d)
    /\ LET x == update_connection(Store, r, u, v.parada_origen_id, d,
                                  1 - v.distancia, v.parada_destino_id)
       IN x.res.success /\ x.st.vecinos # vecinos /\ w \in x.st.vecinos

\* C8: update_connection(origin, dest, d, previous_dest) on an owned Route with
\* both endpoints in it, origin # dest, d >= 0 (d = 0 included) and
\* previous_dest absent or equal to dest: when (origin, dest) is stored only its
\* distance becomes d, the ordered pairs and every other Connection staying as
\* they were; when it is not stored the result is NotFound and nothing changes.
C8_DistanceOnly ==
  \A r \in RutaArgs, u \in Usuarios, o \in StopIds, d \in StopIds, dist \in NonNegative :
    (OwnedRoute(r, u) /\ StopOf(o, r) /\ StopOf(d, r) /\ o # d) =>
      \A ant \in {0, d} :
        LET x == update_connection(Store, r, u, o, d, dist, ant)
        IN IF HasEdge(o, d)
             THEN /\ x.res.success
                  /\ x.st = [Store EXCEPT !.vecinos =
                       {v \in @ : ~(v.parada_origen_id = o /\ v.parada_destino_id = d)}
                         \cup {Vecino(o, d, dist)}]
                  /\ {<<v.parada_origen_id, v.parada_destino_id>> : v \in x.st.vecinos}
                       = {<<v.parada_origen_id, v.parada_destino_id>> : v \in vecinos}
             ELSE Failed(x, "NotFound") /\ x.st = Store

\* two edges are stored, one with distance 1; setting its distance to 0
\* succeeds, and the same call for a pair that is not stored is NotFound
C8_Witness ==
  \E r \in RutaArgs, u \in Usuarios, v \in vecinos, w \in vecinos :
    /\ v # w
    /\ v.distancia = 1
    /\ OwnedRoute(r, u) /\ StopOf(v.parada_origen_id, r)
    /\ LET x == update_connection(Store, r, u, v.parada_origen_id, v.parada_destino_id, 0, 0)
       IN x.res.success /\ Vecino(v.parada_origen_id, v.parada_destino_id, 0) \in x.st.vecinos
    /\ ~HasEdge(v.parada_destino_id, v.parada_origen_id)
    /\ Failed(update_connection(Store, r, u, v.parada_destino_id, v.parada_origen_id, 0, 0),
              "NotFound")


\* r answers as a missing Route does: the call fails with the result x that the
\* same call gives for the identifier nr of no Route, returns no row and
\* leaves the store as it is
AsMissing(x, nr) == x.res = nr.res /\ ~x.res.success /\ x.res.datos = {} /\ x.st = Store

NotFoundKinds == {<<"RouteNotFound">>, <<"StopNotFound">>}

NombresArg == {<<" ">>, NombreDe(1), <<" ">> \o NombreDe(2)}

NoDangling(st) ==
  /\ \A p \in st.paradas : \E x \in st.rutas : x.id = p.ruta_id
  /\ \A v \in st.vecinos :
       /\ \E p \in st.paradas : p.id = v.parada_origen_id
       /\ \E p \in st.paradas : p.id = v.parada_destino_id

\* C10: delete_route(r, owner) of an owned Route succeeds and in that one step
\* removes the Route, every Stop of it and every Connection with an endpoint in
\* it: afterwards get_route_stops(r) and get_route_connections(r) answer
\* RouteNotFound with no rows, no stored Stop or Connection refers to r or to a
\* Stop of r, and every other Route, Stop and Connection is unchanged.
C10_DeleteRouteCascade ==
  /\ NoDangling(Store)
  /\ \A r \in RutaArgs, u \in Usuarios :
       OwnedRoute(r, u) =>
         LET x == delete_route(Store, r, u)
             gone == {p.id : p \in {q \in paradas : q.ruta_id = r}}
         IN /\ x.res.success
            /\ x.st.rutas = {y \in rutas : y.id # r}
            /\ x.st.paradas = {p \in paradas : p.ruta_id # r}
            /\ x.st.vecinos = {v \in vecinos : v.parada_origen_id \notin gone
                                                /\ v.parada_destino_id \notin gone}
            /\ NoDangling(x.st)
            /\ \A w \in Usuarios :
                 /\ Failed(get_route_stops(x.st, r, w), "RouteNotFound")
                 /\ Failed(get_route_connections(x.st, r, w), "RouteNotFound")

\* a Route with Stops and a Connection is deleted while another Route has a Stop
C10_Witness ==
  \E r \in RutaArgs, u \in Usuarios, v \in vecinos, p \in paradas :
    /\ OwnedRoute(r, u)
    /\ StopOf(v.parada_origen_id, r)
    /\ p.ruta_id # r
    /\ LET x == delete_route(Store, r, u)
       IN x.res.success /\ x.st.vecinos = {} /\ x.st.paradas = {p}

\* C3: when two create_connection calls for the same ordered pair run
\* concurrently, the pair is stored at most once, and the call that loses
\* the race (the other call commits the pair while it is between its call and
\* its INSERT, the store being available) does not return success and returns
\* the Duplicate outcome, not the generic failure.
C3_ConcurrentCreate ==
  /\ \A o \in StopIds, d \in StopIds : CountVecino(Store, o, d) <= 1
  /\ \A t \in Sesiones :
       (pc[t] = "done" /\ call[t].op = "create" /\ call[t].raced /\ ~ret[t].fault)
         => (~ret[t].success /\ ret[t].message = <<"Duplicate">>)

\* the part of C3 the code does keep: the pair is stored at most once and the
\* call that loses the race does not return success
C3_AtMostOneSuccess ==
  /\ \A o \in StopIds, d \in StopIds : CountVecino(Store, o, d) <= 1
  /\ \A t \in Sesiones :
       (pc[t] = "done" /\ call[t].op = "create" /\ call[t].raced) => ~ret[t].success

\* session s has deleted the old edge of a re-target on its connection and
\* has not committed
RetargetDeleted(s) ==
  /\ call[s].op = "update"
  /\ pc[s] \in {"r_insert", "r_commit"}
  /\ <<call[s].origen, call[s].anterior>> \in tx[s].del

\* C7: re-target is atomic. While a call has deleted the old edge and not
\* committed, the committed store still holds the old edge, and once the new
\* edge is inserted on the connection the committed store does not hold it.
\* If the call then fails (the store fails, or the INSERT raises) it reports
\* failure and the committed store is left exactly as it was, old edge and
\* old distance included; if it commits, the old edge is replaced by the new
\* one in a single step.
C7_RetargetAtomic ==
  /\ [](\A s \in Sesiones :
          RetargetDeleted(s) =>
            /\ HasEdge(call[s].origen, call[s].anterior)
            /\ pc[s] = "r_commit" => ~HasEdge(call[s].origen, call[s].destino))
  /\ [][\A s \in Sesiones :
          (RetargetDeleted(s) /\ pc'[s] = "done") =>
            /\ ret'[s].fault => ~ret'[s].success
            /\ ~ret'[s].success => vecinos' = vecinos
            /\ ret'[s].success =>
                 vecinos' = {v \in vecinos : Par(v) # <<call[s].origen, call[s].anterior>>}
                              \cup {Vecino(call[s].origen, call[s].destino,
                                           call[s].distancia)}]_vars

\* the store failed after the old edge was deleted on the connection; the call
\* has returned its failure and the store holds the old edge and not the new one
C7_Witness ==
  \E s \in Sesiones :
    /\ pc[s] = "done"
    /\ call[s].op = "update"
    /\ call[s].anterior # 0
    /\ ret[s].fault
    /\ ~ret[s].success
    /\ ret[s].at \in {"r_insert", "r_commit"}
    /\ HasEdge(call[s].origen, call[s].anterior)
    /\ ~HasEdge(call[s].origen, call[s].destino)
    /\ \A t \in Sesiones \ {s} : pc[t] = "idle"

\* C11: delete_stop(s, r, owner) of a Stop s of an owned Route r succeeds and
\* in that one step removes s and every Connection whose origin or destination
\* is s, leaving every other Stop, every Connection not incident to s and every
\* Route unchanged; delete_stop of a Stop that is not in the given Route (or of
\* a Route the caller does not own) returns the not-found outcome and changes
\* nothing.
C11_DeleteStopCascade ==
  \A s \in ParadaArgs, r \in RutaArgs, u \in Usuarios :
    LET x == delete_stop(Store, s, r, u)
    IN IF StopOf(s, r) /\ OwnedRoute(r, u)
         THEN /\ x.res.success
              /\ x.st.paradas = {p \in paradas : p.id # s}
              /\ x.st.vecinos = {v \in vecinos : v.parada_origen_id # s
                                                  /\ v.parada_destino_id # s}
              /\ x.st.rutas = rutas
              /\ NoDangling(x.st)
         ELSE Failed(x, "StopNotFound") /\ x.st = Store

\* a Stop that is the destination of one Connection is deleted while another
\* Connection, not incident to it, is stored; and a Stop that exists is not
\* deleted through a Route it does not belong to
C11_Witness ==
  \E v \in vecinos, w \in vecinos, r \in RutaArgs, u \in Usuarios :
    /\ v.parada_destino_id \notin {w.parada_origen_id, w.parada_destino_id}
    /\ StopOf(v.parada_destino_id, r)
    /\ OwnedRoute(r, u)
    /\ LET x == delete_stop(Store, v.parada_destino_id, r, u)
       IN x.res.success /\ x.st.vecinos = {w}
                        /\ Cardinality(x.st.paradas) = Cardinality(paradas) - 1
    /\ \E q \in RutaArgs \ {r} :
         Failed(delete_stop(Store, v.parada_destino_id, q, u), "StopNotFound")

\* no two Stops of one Route have the same name
NombresUnicos(st) ==
  \A p \in st.paradas, q \in st.paradas :
    (p.ruta_id = q.ruta_id /\ p.nombre = q.nombre) => p = q

\* C12: after any sequence of create_stop and update_stop calls, interleaved
\* ones included, no two Stops of the same Route have the same name, and a
\* call refused because the name is in use in the Route (by its duplicate
\* query or by its INSERT or UPDATE, the store being available) returns
\* DuplicateName.
C12_StopNamesUnique ==
  /\ NombresUnicos(Store)
  /\ \A t \in Sesiones :
       (pc[t] = "done" /\ ~ret[t].success /\ ~ret[t].fault
          /\ ret[t].at \in {"s_dup", "s_insert", "p_dup", "p_update"})
         => ret[t].message = <<"DuplicateName">>

\* the part of C12 the code keeps, for calls that run one after the other:
\* names stay unique per Route; create_stop with a name of the Route and
\* update_stop to the name of another Stop of the Route return DuplicateName
\* and change nothing; update_stop to the Stop's own name succeeds; a name
\* used in another Route only is accepted.
C12_OneAtATime ==
  /\ NombresUnicos(Store)
  /\ \A r \in RutaArgs, u \in Usuarios, p \in paradas, n \in NombresArg :
       (OwnedRoute(r, u) /\ Strip(n) # << >>) =>
         LET used == \E q \in paradas : q.ruta_id = r /\ q.nombre = Strip(n)
             other == \E q \in paradas : q.ruta_id = r /\ q.nombre = Strip(n) /\ q.id # p.id
             c == create_stop(Store, r, u, n)
             x == update_stop(Store, p.id, r, u, n)
         IN /\ used => (Failed(c, "DuplicateName") /\ c.st = Store)
            /\ ~used => (c.res.success /\ NombresUnicos(c.st))
            /\ (p.ruta_id = r /\ other) => (Failed(x, "DuplicateName") /\ x.st = Store)
            /\ (p.ruta_id = r /\ ~other) => (x.res.success /\ NombresUnicos(x.st))

DescripcionDe(n) == [k \in 1..n |-> "d"]

\* names at and around the limits, bare and padded with blanks
NombresLimite ==
  { << >>, <<" ">>, NombreDe(MinNombreRuta - 1), <<" ">> \o NombreDe(MinNombreRuta - 1),
    NombreDe(MinNombreRuta), NombreDe(MaxNombreRuta),
    <<" ">> \o NombreDe(MaxNombreRuta) \o <<" ">>, NombreDe(MaxNombreRuta + 1) }

\* descriptions at and around the limit
DescripcionesLimite ==
  { << >>, <<" ">> \o DescripcionDe(1), DescripcionDe(MaxDescripcionRuta),
    DescripcionDe(MaxDescripcionRuta + 1) }

NameErrors == {"NameRequired", "NameTooShort", "NameTooLong"}

\* C13: create_route fails with an invalid-name error and inserts nothing
\* whenever the trimmed name is empty, shorter than 2 or longer than 100
\* characters, and fails and inserts nothing when the description is longer
\* than 1000 characters; every stored Route has a trimmed name of 2 to 100
\* characters and a description of at most 1000 characters.
C13_RouteNameLength ==
  /\ \A u \in Usuarios, n \in NombresLimite, d \in DescripcionesLimite :
       LET x == create_route(Store, u, n, d)
       IN /\ (Len(Strip(n)) < MinNombreRuta \/ Len(Strip(n)) > MaxNombreRuta) =>
               /\ ~x.res.success
               /\ x.res.message # << >> /\ x.res.message[1] \in NameErrors
               /\ x.st = Store
          /\ Len(Strip(d)) > MaxDescripcionRuta => (~x.res.success /\ x.st = Store)
  /\ \A r \in rutas :
       /\ r.nombre = Strip(r.nombre)
       /\ Len(r.nombre) >= MinNombreRuta /\ Len(r.nombre) <= MaxNombreRuta
       /\ Len(r.descripcion) <= MaxDescripcionRuta

\* the part of C13 the code keeps: a name that is empty after trimming is
\* refused with the name-required error and nothing is inserted
C13_EmptyName ==
  \A u \in Usuarios, n \in NombresLimite, d \in DescripcionesLimite :
    Strip(n) = << >> =>
      LET x == create_route(Store, u, n, d)
      IN ~x.res.success /\ x.res.message[1] = "NameRequired" /\ x.st = Store

\* names and descriptions the specification calls valid, bare and padded
NombresValidos ==
  {n \in NombresLimite :
     Len(Strip(n)) >= MinNombreRuta /\ Len(Strip(n)) <= MaxNombreRuta}
  \cup {<<" ">> \o NombreDe(MinNombreRuta)}

DescripcionesValidas ==
  {d \in DescripcionesLimite : Len(Strip(d)) <= MaxDescripcionRuta} \cup {None}

NameFree(u, n) == ~\E r \in rutas : r.usuario_id = u /\ r.nombre = Strip(n)

\* C14: for every valid name not yet used by the owner and every valid
\* description, absent or padded with blanks included, create_route succeeds
\* and get_route_by_id of the new Route returns the name and the description
\* exactly as they were supplied (an absent description as absent or empty).
C14_RoundTrip ==
  \A u \in Usuarios, n \in NombresValidos, d \in DescripcionesValidas :
    NameFree(u, n) =>
      LET c == create_route(Store, u, n, d)
          g == get_route_by_id(c.st, next_ruta, u)
      IN /\ c.res.success
         /\ g.res.success
         /\ \A r \in g.res.datos :
              /\ r.nombre = n
              /\ r.descripcion = d \/ (d = None /\ r.descripcion = << >>)
         /\ g.res.datos # {}

\* the part of C14 the code keeps: with a description that is a string, the
\* Route is created and read back with name and description trimmed
C14_RoundTripTrimmed ==
  \A u \in Usuarios, n \in NombresValidos, d \in DescripcionesValidas \ {None} :
    NameFree(u, n) =>
      LET c == create_route(Store, u, n, d)
          g == get_route_by_id(c.st, next_ruta, u)
      IN /\ c.res.success
         /\ g.res.success
         /\ g.res.datos = {[id |-> next_ruta, usuario_id |-> u, nombre |-> Strip(n),
                            descripcion |-> Strip(d)]}

\* C15: no two Routes of one owner have the same stored name; create_route
\* with a name (after trimming) that the owner already uses returns
\* DuplicateName and inserts nothing, and with a name that only other owners
\* use it succeeds and stores the Route under the caller.
C15_RouteNamesUnique ==
  /\ \A p \in rutas, q \in rutas :
       (p.usuario_id = q.usuario_id /\ p.nombre = q.nombre) => p = q
  /\ \A u \in Usuarios, n \in NombresValidos \cup NombresRuta, d \in DescripcionesLimite :
       Strip(n) # << >> =>
         LET x == create_route(Store, u, n, d)
         IN IF NameFree(u, n)
              THEN /\ x.res.success
                   /\ x.st.rutas = rutas \cup {[id |-> next_ruta, usuario_id |-> u,
                                                 nombre |-> Strip(n),
                                                 descripcion |-> Strip(d)]}
              ELSE Failed(x, "DuplicateName") /\ x.st = Store

\* two owners each have a Route with the same name, a further create_route
\* with that name, padded, is refused for both
C15_Witness ==
  \E p \in rutas, q \in rutas :
    /\ p.usuario_id # q.usuario_id
    /\ p.nombre = q.nombre
    /\ \A u \in Usuarios :
         Failed(create_route(Store, u, <<" ">> \o p.nombre \o <<" ">>, << >>), "DuplicateName")

\* the Stops get_available_stops_for_connection returns for source s in store st
Disponibles(st, s, r, u) == get_available_stops_for_connection(st, s, r, u).res.datos

\* C16: for every owned Route r and source Stop s of it,
\* get_available_stops_for_connection succeeds and returns exactly the Stops t
\* of r with t # s and no stored Connection (s, t); a stored reverse
\* Connection (t, s) does not exclude t.
C16_AvailableDestinations ==
  \A r \in RutaArgs, u \in Usuarios, s \in StopIds :
    (OwnedRoute(r, u) /\ StopOf(s, r)) =>
      /\ get_available_stops_for_connection(Store, s, r, u).res.success
      /\ Disponibles(Store, s, r, u) =
           {t \in StopIds : StopOf(t, r) /\ t # s /\ ~HasEdge(s, t)}

\* source s has an edge to w and an edge from t: w is excluded, t is returned
C16_Witness ==
  \E r \in RutaArgs, u \in Usuarios, s \in StopIds, t \in StopIds, w \in StopIds :
    /\ OwnedRoute(r, u) /\ StopOf(s, r)
    /\ HasEdge(s, w) /\ HasEdge(t, s) /\ ~HasEdge(s, t)
    /\ Disponibles(Store, s, r, u) = {t}

\* C17: get_available_stops_for_connection is a pure query: whatever its
\* arguments, it leaves Routes, Stops and Connections as they were, and a
\* second call with the same arguments returns the same result.
C17_AvailableIsQuery ==
  \A r \in RutaArgs, u \in Usuarios, s \in ParadaArgs :
    LET x == get_available_stops_for_connection(Store, s, r, u)
    IN /\ x.st = Store
       /\ get_available_stops_for_connection(x.st, s, r, u).res = x.res

\* the query answers with a Stop for a source that has an outgoing edge
C17_Witness ==
  \E r \in RutaArgs, u \in Usuarios, s \in StopIds, w \in StopIds :
    /\ OwnedRoute(r, u) /\ StopOf(s, r) /\ HasEdge(s, w)
    /\ get_available_stops_for_connection(Store, s, r, u).res.success
    /\ Disponibles(Store, s, r, u) # {}
    /\ get_available_stops_for_connection(Store, s, r, u).st = Store

\* C18: get_available_stops_for_connection reflects the edges of the store
\* it is called on: after a successful create_connection(s, t), or re-target
\* of an edge of s to t, t is not returned for s; after a successful
\* delete_connection(s, t), or re-target of (s, t) to another Stop, t is
\* returned for s; after a successful delete_stop(t), t is returned for no
\* source.
C18_AvailableIsCurrent ==
  \A r \in RutaArgs, u \in Usuarios, s \in StopIds, t \in StopIds :
    LET c == create_connection(Store, r, u, s, t, 1)
        del == delete_connection(Store, r, u, s, t)
        ds == delete_stop(Store, t, r, u)
    IN /\ c.res.success =>
            Disponibles(c.st, s, r, u) = Disponibles(Store, s, r, u) \ {t}
       /\ del.res.success =>
            Disponibles(del.st, s, r, u) = Disponibles(Store, s, r, u) \cup {t}
       /\ ds.res.success =>
            \A s2 \in StopIds : t \notin Disponibles(ds.st, s2, r, u)
       /\ \A anterior \in StopIds \ {t} :
            LET upd == update_connection(Store, r, u, s, t, 1, anterior)
            IN upd.res.success =>
                 Disponibles(upd.st, s, r, u)
                   = (Disponibles(Store, s, r, u) \ {t}) \cup {anterior}

\* source s has the edge (s, t) and no edge to w: creating (s, w), re-targeting
\* (s, t) to w, deleting (s, t) and deleting Stop t all succeed
C18_Witness ==
  \E r \in RutaArgs, u \in Usuarios, s \in StopIds, t \in StopIds, w \in StopIds :
    /\ HasEdge(s, t) /\ ~HasEdge(s, w)
    /\ Disponibles(Store, s, r, u) = {w}
    /\ create_connection(Store, r, u, s, w, 1).res.success
    /\ update_connection(Store, r, u, s, w, 1, t).res.success
    /\ delete_connection(Store, r, u, s, t).res.success
    /\ delete_stop(Store, t, r, u).res.success
    /\ Disponibles(update_connection(Store, r, u, s, w, 1, t).st, s, r, u) = {t}

\* the paths of G from s to t
CaminosDe(G, s, t) == {p \in Caminos(G) : p[1] = s /\ p[Len(p)] = t}

\* the view with s and t selected
Seleccion(s, t) == [vista EXCEPT !.start_node = s, !.end_node = t]

\* C19: for every graph with non-negative distances and every selection of
\* distinct nodes s, t with a directed path from s to t,
\* _calculate_shortest_path reports success with a node sequence that starts at
\* s, ends at t and follows stored edges, and a total distance that is the sum
\* of the distances of its edges and is no more than that of any directed path
\* from s to t.
C19_ShortestPath ==
  LET s == vista.start_node
      t == vista.end_node
      paths == CaminosDe(Grafo, s, t)
      views == calculate_shortest_path(vista, Grafo)
  IN (s # 0 /\ t # 0 /\ s # t /\ paths # {}) =>
       /\ views # {}
       /\ \A v \in views :
            /\ v.message = "success"
            /\ v.shortest_path \in paths
            /\ v.path_length = Longitud(Grafo, v.shortest_path)
            /\ \A q \in paths : v.path_length <= Longitud(Grafo, q)

\* the path shown goes through a third Stop although a direct edge exists,
\* and in the same graph the direct edge is the path shown the other way
C19_Witness ==
  /\ vista.message = "success"
  /\ Len(vista.shortest_path) = 3
  /\ HasEdge(vista.start_node, vista.end_node)
  /\ vista.path_length < Peso(Grafo, vista.start_node, vista.end_node)
  /\ vista.shortest_path[1] = vista.start_node
  /\ vista.shortest_path[3] = vista.end_node

C21_NoPath ==
  LET s == vista.start_node
      t == vista.end_node
  IN (s # 0 /\ t # 0 /\ s # t /\ CaminosDe(Grafo, s, t) = {}) =>
       calculate_shortest_path(vista, Grafo) = {[vista EXCEPT !.message = "error_no_path"]}

\* the handler has answered no-path for a selection whose reverse edge is stored
C21_Witness ==
  /\ vista.message = "error_no_path"
  /\ vista.shortest_path = << >>
  /\ HasEdge(vista.end_node, vista.start_node)
  /\ ~HasEdge(vista.start_node, vista.end_node)
  /\ CaminosDe(Grafo, vista.start_node, vista.end_node) = {}

\* the graph the view holds after create() for Route r of user u, when it held
\* the graph G before
GrafoDe(G, r, u) ==
  build_graph(G, get_route_stops(Store, r, u).res.datos,
              get_route_connections(Store, r, u).res.datos)

\* C22: in every reachable store, for every owned Route r and whatever Route q
\* the view showed before, the graph built for r has as nodes exactly the ids
\* of the Stops of r (isolated ones included) and as edges exactly the stored
\* Connections that touch a Stop of r, with their distances; no node or edge
\* of the graph built for q remains.
C22_GraphIsRoute ==
  \A u \in Usuarios, r \in RutaArgs, q \in RutaArgs :
    (OwnedRoute(r, u) /\ OwnedRoute(q, u)) =>
      LET G == GrafoDe(GrafoDe(DiGraph, q, u), r, u)
          stops == {p.id : p \in {x \in paradas : x.ruta_id = r}}
      IN /\ G.nodes = stops
         /\ G.edges = {v \in vecinos : v.parada_origen_id \in stops
                                         \/ v.parada_destino_id \in stops}

\* one owner has a Route whose graph has a Connection and another Route whose
\* only Stop is isolated, and each is built after the other was shown
C22_Witness ==
  \E u \in Usuarios, r \in RutaArgs :
    /\ OwnedRoute(r, u) /\ OwnedRoute(3 - r, u)
    /\ GrafoDe(GrafoDe(DiGraph, 3 - r, u), r, u).edges # {}
    /\ GrafoDe(GrafoDe(DiGraph, r, u), 3 - r, u).edges = {}
    /\ Cardinality(GrafoDe(GrafoDe(DiGraph, r, u), 3 - r, u).nodes) = 1

\* the outcomes a call reports for its arguments or for what they name, as
\* opposed to the generic failure of the except clauses
ValidationKinds ==
  {"NameRequired", "RouteRequired", "InvalidOrigin", "InvalidDestination", "SelfLoop",
   "NegativeDistance", "Duplicate", "DuplicateName", "NotFound", "RouteNotFound",
   "StopNotFound", "InvalidEndpoint", "InvalidRouteId", "InvalidId", "InvalidUserId"}

ValidationError(x) ==
  /\ ~x.res.success
  /\ x.res.message # << >>
  /\ \A i \in 1..Len(x.res.message) : x.res.message[i] \in ValidationKinds

\* the call that returned x left the three tables as they are
Untouched(x) ==
  /\ x.st.rutas = rutas
  /\ x.st.paradas = paradas
  /\ x.st.vecinos = vecinos

\* a call that returned a validation error wrote nothing
Kept(x) == ValidationError(x) => Untouched(x)

\* C23: in every reachable store and for every argument, an operation of the
\* three controllers that returns a validation error (invalid name, SelfLoop,
\* negative distance, Duplicate, DuplicateName, NotFound, InvalidEndpoint)
\* leaves Routes, Stops and Connections exactly as they were before the call.
C23_ValidationErrorKeepsStore ==
  \A u \in Usuarios :
    /\ \A n \in NombresRuta, d \in DescripcionesRuta : Kept(create_route(Store, u, n, d))
    /\ \A r \in RutaArgs \cup {NoRuta} :
         /\ Kept(delete_route(Store, r, u))
         /\ \A n \in NombresArg : Kept(create_stop(Store, r, u, n))
         /\ \A s \in ParadaArgs \cup {NoParada} :
              /\ Kept(delete_stop(Store, s, r, u))
              /\ \A n \in NombresArg : Kept(update_stop(Store, s, r, u, n))
         /\ \A o \in ParadaArgs, d \in ParadaArgs \cup {NoParada} :
              /\ Kept(delete_connection(Store, r, u, o, d))
              /\ \A dist \in Distancias :
                   /\ Kept(create_connection(Store, r, u, o, d, dist))
                   /\ \A ant \in ParadaArgs :
                        Kept(update_connection(Store, r, u, o, d, dist, ant))

\* a Route holds three Stops and two Connections from the same origin, and on
\* it a re-target onto the other stored pair is answered Duplicate, a creation
\* of a stored pair Duplicate, a renaming to a sibling's name DuplicateName, a
\* Connection to a Stop outside the Route InvalidEndpoint and a self-loop
\* SelfLoop
C23_Witness ==
  \E u \in Usuarios, r \in RutaArgs, o \in StopIds, d \in StopIds, a \in StopIds :
    /\ OwnedRoute(r, u)
    /\ d # a
    /\ HasEdge(o, d) /\ HasEdge(o, a)
    /\ Failed(update_connection(Store, r, u, o, d, 1, a), "Duplicate")
    /\ Failed(create_connection(Store, r, u, o, d, 1), "Duplicate")
    /\ Failed(create_connection(Store, r, u, o, NoParada, 1), "InvalidEndpoint")
    /\ Failed(update_connection(Store, r, u, o, o, 1, 0), "SelfLoop")
    /\ Failed(update_connection(Store, r, u, o, d, -1, 0), "NegativeDistance")
    /\ Failed(update_connection(Store, r, u, d, o, 1, 0), "NotFound")
    /\ \E n \in NombresArg : Failed(update_stop(Store, o, r, u, n), "DuplicateName")

\* Dijkstra's algorithm that settles, among the open nodes of least tentative
\* distance, the one of smallest identifier; prev is the predecessor it records
RECURSIVE MenorIdLoop(_, _, _, _)
MenorIdLoop(G, dist, prev, done) ==
  LET cand == {n \in G.nodes \ done : dist[n] < Inalcanzable(G)}
  IN IF cand = {} THEN prev
     ELSE LET u == CHOOSE n \in cand :
                     \A m \in cand : dist[n] < dist[m] \/ (dist[n] = dist[m] /\ n <= m)
              better == {v \in Sucesores(G, u) \ done : dist[u] + Peso(G, u, v) < dist[v]}
          IN MenorIdLoop(G,
               [v \in G.nodes |-> IF v \in better THEN dist[u] + Peso(G, u, v) ELSE dist[v]],
               [v \in G.nodes |-> IF v \in better THEN u ELSE prev[v]],
               done \cup {u})

RECURSIVE CaminoPor(_, _, _)
CaminoPor(prev, s, t) ==
  IF t = s THEN <<s>> ELSE Append(CaminoPor(prev, s, prev[t]), t)

\* the path that visitation order finds from s to t (t reachable from s)
CaminoMenorId(G, s, t) ==
  CaminoPor(MenorIdLoop(G, [n \in G.nodes |-> IF n = s THEN 0 ELSE Inalcanzable(G)],
                        [n \in G.nodes |-> 0], {}),
            s, t)

\* C24: whenever _calculate_shortest_path has shown a path for the current
\* selection, and whichever order the Connections were listed in when the graph
\* was built, the path is the one Dijkstra's algorithm finds when, among nodes
\* of equal tentative distance, it pops the smallest Stop identifier first.
C24_TieBreakBySmallestId ==
  (/\ vista.message = "success"
   /\ vista.start_node # 0 /\ vista.end_node # 0
   /\ vista.shortest_path # << >>
   /\ vista.shortest_path[1] = vista.start_node
   /\ vista.shortest_path[Len(vista.shortest_path)] = vista.end_node)
    => vista.shortest_path = CaminoMenorId(Grafo, vista.start_node, vista.end_node)

\* the path the search returns for the list the controller returns is the
\* path it returns for the same Connections listed in the order of their ids
C24_SameForEveryListing ==
  \A s \in Grafo.nodes, t \in Grafo.nodes :
    bidirectional_dijkstra(Grafo, ListaConexiones(Store, 1), s, t).path
      = bidirectional_dijkstra(Grafo, ListaConexiones_PorId(Store, 1), s, t).path

\* C25: in every store reached by any sequence of operations, every stored
\* Connection joins two different Stops and has a distance >= 0; and
\* update_connection with destination = origin returns SelfLoop, and with a
\* negative distance is rejected, whatever its other arguments, each leaving
\* the store as it was.
C25_ConnectionsWellFormed ==
  /\ \A v \in vecinos : v.parada_origen_id # v.parada_destino_id /\ v.distancia >= 0
  /\ \A u \in Usuarios, r \in RutaArgs, o \in ParadaArgs, d \in ParadaArgs,
        dist \in Distancias, ant \in ParadaArgs :
       LET x == update_connection(Store, r, u, o, d, dist, ant)
       IN /\ o = d => Failed(x, "SelfLoop") /\ x.st = Store
          /\ dist < 0 => ~x.res.success /\ x.st = Store
          /\ (o # d /\ dist < 0) => Failed(x, "NegativeDistance")

\* a Route holds two Connections from one origin, one of distance 0, where a
\* distance-only update and a re-target would both succeed with a valid
\* distance and are refused with a negative one or with destination = origin
C25_Witness ==
  \E u \in Usuarios, r \in RutaArgs, o \in StopIds, d \in StopIds, a \in StopIds :
    /\ OwnedRoute(r, u)
    /\ HasEdge(o, d) /\ ~HasEdge(o, a) /\ HasEdge(a, o)
    /\ \E v \in vecinos : v.distancia = 0
    /\ update_connection(Store, r, u, o, d, 1, 0).res.success
    /\ update_connection(Store, r, u, o, a, 1, d).res.success
    /\ Failed(update_connection(Store, r, u, o, d, -1, 0), "NegativeDistance")
    /\ Failed(update_connection(Store, r, u, o, a, -1, d), "NegativeDistance")
    /\ Failed(update_connection(Store, r, u, o, o, 1, d), "SelfLoop")

\* the (id, Route) pairs of the Stops of a store
RutaDeParadas(st) == {<<p.id, p.ruta_id>> : p \in st.paradas}

C27_AvailableIffCreatable ==
  \A u \in Usuarios, r \in RutaArgs, s \in StopIds, t \in StopIds, dist \in NonNegative :
    (OwnedRoute(r, u) /\ StopOf(s, r) /\ StopOf(t, r)) =>
      (t \in get_available_stops_for_connection(Store, s, r, u).res.datos
         <=> create_connection(Store, r, u, s, t, dist).res.success)

\* from s one Stop of the Route is taken and another, which has only the
\* reverse Connection to s, is offered and can be connected
C27_Witness ==
  \E u \in Usuarios, r \in RutaArgs, s \in StopIds, t \in StopIds, w \in StopIds :
    /\ OwnedRoute(r, u)
    /\ StopOf(s, r) /\ StopOf(t, r) /\ StopOf(w, r)
    /\ HasEdge(s, t) /\ HasEdge(w, s) /\ ~HasEdge(s, w)
    /\ get_available_stops_for_connection(Store, s, r, u).res.datos = {w}
    /\ create_connection(Store, r, u, s, w, 0).res.success
    /\ Failed(create_connection(Store, r, u, s, t, 0), "Duplicate")
    /\ Failed(create_connection(Store, r, u, s, s, 0), "SelfLoop")

\* C28: in every reachable store, for every owned Route and every source that
\* is not a Stop of it (no Stop at all, or a Stop of another Route),
\* get_available_stops_for_connection fails with the not-found outcome that
\* get_stop_connections gives for that source, and returns no Stop.
C28_AvailableUnknownSource ==
  \A u \in Usuarios, r \in RutaArgs, s \in StopIds \cup {NoParada} :
    (OwnedRoute(r, u) /\ ~StopOf(s, r)) =>
      /\ Failed(get_stop_connections(Store, s, r, u), "StopNotFound")
      /\ get_available_stops_for_connection(Store, s, r, u).res
           = get_stop_connections(Store, s, r, u).res

\* the part that holds: get_stop_connections reports the source as not found,
\* and what get_available_stops_for_connection answers for it is a success
\* with every Stop of the Route
C28_AvailableListsRoute ==
  \A u \in Usuarios, r \in RutaArgs, s \in StopIds \cup {NoParada} :
    (OwnedRoute(r, u) /\ ~StopOf(s, r)) =>
      /\ Failed(get_stop_connections(Store, s, r, u), "StopNotFound")
      /\ get_available_stops_for_connection(Store, s, r, u).res.success
      /\ get_available_stops_for_connection(Store, s, r, u).res.datos
           = {p.id : p \in {x \in paradas : x.ruta_id = r}}

\* C29: in every state of the graph view, a stored shortest_path that is not
\* empty is a path of the current graph from the selected start_node to the
\* selected end_node: no change of a selection and no calculation that ends
\* without a path leaves the path of an earlier selection stored.
C29_StoredPathIsCurrent ==
  vista.shortest_path # << >> =>
    /\ vista.start_node # 0
    /\ vista.end_node # 0
    /\ vista.shortest_path \in CaminosDe(Grafo, vista.start_node, vista.end_node)

\* what holds instead: a stored path is a path of the current graph between
\* the two Stops that were selected when it was calculated
C29_StoredPathIsAPath ==
  vista.shortest_path # << >> => vista.shortest_path \in Caminos(Grafo)

\* C30: while a call of a controller is between its connect() and its
\* finally clause, the connection it works on is the one its own connect()
\* created, that connection is open and the handle still holds it, whatever
\* the other calls on the same controller do; and no call returns the generic
\* failure, which no call returns when it runs alone.
C30_NoInterference ==
  \A s \in Sesiones :
    /\ pc[s] \in {"checks", "insert", "commit"} =>
         /\ call[s].connection = call[s].opened
         /\ db.conns[call[s].connection].open
         /\ MySQL_get_connection(db) = call[s].connection
    /\ pc[s] \in {"finally", "done"} => ret[s].message # <<"Error">>

\* a call during which no other call ran works on its own open connection and
\* does not return the generic failure
C30_AloneIsClean ==
  \A s \in Sesiones :
    call[s].solo =>
      /\ pc[s] \in {"checks", "insert", "commit"} =>
           /\ call[s].connection = call[s].opened
           /\ db.conns[call[s].connection].open
           /\ MySQL_get_connection(db) = call[s].connection
      /\ pc[s] \in {"finally", "done"} => ret[s].message # <<"Error">>

\* when no call is in progress the handle holds no connection
C30_HandleEmptyAtRest ==
  (\A s \in Sesiones : pc[s] \in {"idle", "done"}) => MySQL_get_connection(db) = 0

\* when no call is in progress no connection opened through the handle is
\* still open
C30_NoConnectionLeftOpen ==
  (\A s \in Sesiones : pc[s] \in {"idle", "done"}) =>
    \A k \in 1..Len(db.conns) : ~db.conns[k].open

====
